---- MODULE Spec2Model ----
(***************************************************************************)
(* Rebalancing engine of the EGX portfolio manager:                        *)
(*   backend/app/services/rebalancing_service.py  (calculate, execute,     *)
(*                                                 undo, propagator)       *)
(*   backend/app/services/strategy_service.py     (initial holdings)       *)
(*   backend/app/api/routes/strategies.py         (HTTP handlers)          *)
(*   backend/app/api/routes/portfolios.py         (portfolio edit)         *)
(*                                                                         *)
(* Money and prices are Python floats in the source; they are modelled by  *)
(* exact integers (whole currency units).  Percentages and average prices  *)
(* that the code obtains by division are modelled by exact reduced         *)
(* fractions <<numerator, denominator>>.                                   *)
(***************************************************************************)
EXTENDS Integers, Sequences, FiniteSets, TLC

\* ------------------------------------------------------------------------
\* Bounds of the model
\* ------------------------------------------------------------------------
MaxRecords == 2
MaxEdits == 1
MaxFunds == 1200
MaxSteps == 7

\* ------------------------------------------------------------------------
\* Program constants (class attributes of RebalancingService)
\* ------------------------------------------------------------------------
REBALANCING_THRESHOLD_PERCENT == 1
MIN_ACTION_QUANTITY == 5
MIN_ACTION_VALUE == 500

\* ------------------------------------------------------------------------
\* Input universes
\* ------------------------------------------------------------------------
StrategyIds == {1}
Stocks == {1, 2, 3}
Portfolios == {1, 2}

\* prices the feed can report for each security
PriceChoices == (1 :> {100, 120}) @@ (2 :> {300}) @@ (3 :> {40})
InitialPrice == (1 :> 100) @@ (2 :> 300) @@ (3 :> 40)

\* portfolio membership before any edit, and the memberships an edit can set
InitialPortfolioStocks == (1 :> {1, 2, 3}) @@ (2 :> {1})
PortfolioEditChoices == (1 :> {{1, 2}, {2, 3}}) @@ (2 :> {{1}, {3}, {1, 3}})

FundsChoices == {2000, 10000}

\* ------------------------------------------------------------------------
\* Exact fractions
\* ------------------------------------------------------------------------
RECURSIVE GCD(_, _)
GCD(a, b) == IF b = 0 THEN a ELSE GCD(b, a % b)

Frac(n, d) == LET g == GCD(n, d) IN <<n \div g, d \div g>>

Whole(n) == <<n, 1>>

\* allocations a client can post at strategy creation; each passes the
\* StrategyBase validator (sums of 100)
AllocationChoices ==
  { << [portfolio_id |-> 1, percentage |-> 100,
        stock_allocations |-> << [stock_id |-> 1, pct |-> Whole(50)],
                                 [stock_id |-> 2, pct |-> Whole(50)] >>] >>,
    << [portfolio_id |-> 1, percentage |-> 100,
        stock_allocations |-> << [stock_id |-> 1, pct |-> Whole(48)],
                                 [stock_id |-> 2, pct |-> Whole(51)],
                                 [stock_id |-> 3, pct |-> Whole(1)] >>] >>,
    << [portfolio_id |-> 1, percentage |-> 60,
        stock_allocations |-> << [stock_id |-> 1, pct |-> Whole(50)],
                                 [stock_id |-> 2, pct |-> Whole(50)] >>],
       [portfolio_id |-> 2, percentage |-> 40,
        stock_allocations |-> << [stock_id |-> 1, pct |-> Whole(100)] >>] >> }

\* ------------------------------------------------------------------------
\* Generic sequence helpers
\* ------------------------------------------------------------------------
Range(s) == {s[i] : i \in DOMAIN s}

\* all orderings of a finite set, as sequences without repetition
Orderings(S) ==
  {s \in [1..Cardinality(S) -> S] : \A i, j \in 1..Cardinality(S) : i # j => s[i] # s[j]}

\* ------------------------------------------------------------------------
\* State
\* ------------------------------------------------------------------------
VARIABLES
  price,              \* Stock.current_price per security (price feed)
  portfolio_stocks,   \* Portfolio.stock_ids per portfolio
  strategies,         \* Strategy rows: id -> [total_funds, remaining_cash, portfolio_allocations]
  holdings,           \* Holding rows (a set; a SELECT without ORDER BY returns them in any order)
  next_holding_id,    \* primary-key sequence of the holdings table
  history,            \* RebalancingHistory rows in creation order (index = id, created_at ascending)
  clock,              \* datetime.utcnow(), a logical clock
  edits,              \* number of portfolio edits made so far
  lastCall,           \* the last handler invoked, with its arguments and what it returned
  preExecute,         \* cash and holdings as they were before the last execute, while nothing else ran
  session,            \* the open AsyncSession of an execute or undo request that has not returned
  requests,           \* the execute and undo requests that run concurrently, each with its own session
  serial,             \* what two concurrent requests would have left had they run one after the other
  steps,              \* number of requests and price updates so far
  loop                \* the greedy while loop of a calculator call that has not returned

vars == <<price, portfolio_stocks, strategies, holdings, next_holding_id, history,
          clock, edits, lastCall, preExecute, session, requests, serial, steps, loop>>

\* ------------------------------------------------------------------------
\* Target Allocation Calculator: RebalancingService._calculate_target_allocations
\* ------------------------------------------------------------------------

\* the (portfolio, portfolio percentage, stock id, stock percentage) entries the two
\* nested loops visit, in visiting order; allocations of a missing portfolio
\* and entries of a missing stock are skipped
RECURSIVE StockEntries(_, _, _, _)
StockEntries(portfolio_id, percentage, stock_allocations, prices) ==
  IF stock_allocations = <<>> THEN <<>>
  ELSE LET e == Head(stock_allocations)
           rest == StockEntries(portfolio_id, percentage, Tail(stock_allocations), prices)
       IN IF e.stock_id \in DOMAIN prices
          THEN <<[portfolio_id |-> portfolio_id, percentage |-> percentage,
                  stock_id |-> e.stock_id, pct |-> e.pct]>> \o rest
          ELSE rest

RECURSIVE AllocationEntries(_, _, _)
AllocationEntries(portfolio_allocations, portfolios, prices) ==
  IF portfolio_allocations = <<>> THEN <<>>
  ELSE LET alloc == Head(portfolio_allocations)
           rest == AllocationEntries(Tail(portfolio_allocations), portfolios, prices)
       IN IF alloc.portfolio_id \in portfolios
          THEN StockEntries(alloc.portfolio_id, alloc.percentage, alloc.stock_allocations, prices) \o rest
          ELSE rest

\* floor(total_value * (percentage / 100) * (stock_percentage / 100) / price)
FloorQuantity(total_value, percentage, pct, stock_price) ==
  (total_value * percentage * pct[1]) \div (100 * 100 * pct[2] * stock_price)

\* the dict target_allocations after the floor loop: its insertion order and
\* the summed quantity of every key
RECURSIVE FloorAllocations(_, _, _, _)
FloorAllocations(entries, total_value, prices, acc) ==
  IF entries = <<>> THEN acc
  ELSE LET e == Head(entries)
           q == FloorQuantity(total_value, e.percentage, e.pct, prices[e.stock_id])
           acc2 == IF e.stock_id \in Range(acc.order)
                   THEN [acc EXCEPT !.quantity[e.stock_id] = @ + q]
                   ELSE [order |-> Append(acc.order, e.stock_id),
                         quantity |-> acc.quantity @@ (e.stock_id :> q)]
       IN FloorAllocations(Tail(entries), total_value, prices, acc2)

EmptyTarget == [order |-> <<>>, quantity |-> <<>>]

\* sum of quantity * current_price over the dict
RECURSIVE TargetSpent(_, _, _)
TargetSpent(order, quantity, prices) ==
  IF order = <<>> THEN 0
  ELSE quantity[Head(order)] * prices[Head(order)] + TargetSpent(Tail(order), quantity, prices)

\* a sort with the dearest security first
RECURSIVE InsertByPrice_Descending(_, _, _)
InsertByPrice_Descending(sorted, s, prices) ==
  IF sorted = <<>> THEN <<s>>
  ELSE IF prices[s] > prices[Head(sorted)] THEN <<s>> \o sorted
       ELSE <<Head(sorted)>> \o InsertByPrice_Descending(Tail(sorted), s, prices)

\* sorted(..., key=price): a stable sort, ties keep insertion order
RECURSIVE InsertByPrice(_, _, _)
InsertByPrice(sorted, s, prices) ==
  IF sorted = <<>> THEN <<s>>
  ELSE IF prices[s] < prices[Head(sorted)] THEN <<s>> \o sorted
       ELSE <<Head(sorted)>> \o InsertByPrice(Tail(sorted), s, prices)

RECURSIVE SortByPrice(_, _)
SortByPrice(order, prices) ==
  IF order = <<>> THEN <<>>
  ELSE InsertByPrice(SortByPrice(SubSeq(order, 1, Len(order) - 1), prices),
                     order[Len(order)], prices)

\* a pass that reports a purchase whether or not it made one
RECURSIVE GreedyPass_AlwaysAllocated(_, _, _)
GreedyPass_AlwaysAllocated(sorted, prices, st) ==
  IF sorted = <<>> THEN [st EXCEPT !.allocated_any = TRUE]
  ELSE LET s == Head(sorted)
       IN IF st.remaining_cash >= prices[s]
          THEN GreedyPass_AlwaysAllocated(Tail(sorted), prices,
                 [quantity |-> [st.quantity EXCEPT ![s] = @ + 1],
                  remaining_cash |-> st.remaining_cash - prices[s],
                  allocated_any |-> TRUE])
          ELSE GreedyPass_AlwaysAllocated(Tail(sorted), prices, st)

\* a pass that buys a share whenever any cash is left
RECURSIVE GreedyPass_BuysWithAnyCash(_, _, _)
GreedyPass_BuysWithAnyCash(sorted, prices, st) ==
  IF sorted = <<>> THEN st
  ELSE LET s == Head(sorted)
       IN IF st.remaining_cash > 0
          THEN GreedyPass_BuysWithAnyCash(Tail(sorted), prices,
                 [quantity |-> [st.quantity EXCEPT ![s] = @ + 1],
                  remaining_cash |-> st.remaining_cash - prices[s],
                  allocated_any |-> TRUE])
          ELSE GreedyPass_BuysWithAnyCash(Tail(sorted), prices, st)

\* one run of the inner for loop over sorted_stocks
RECURSIVE GreedyPass(_, _, _)
GreedyPass(sorted, prices, st) ==
  IF sorted = <<>> THEN st
  ELSE LET s == Head(sorted)
       IN IF st.remaining_cash >= prices[s]
          THEN GreedyPass(Tail(sorted), prices,
                 [quantity |-> [st.quantity EXCEPT ![s] = @ + 1],
                  remaining_cash |-> st.remaining_cash - prices[s],
                  allocated_any |-> TRUE])
          ELSE GreedyPass(Tail(sorted), prices, st)

\* a loop that stops after its first pass
GreedyLoop_SinglePass(sorted, prices, quantity, remaining_cash) ==
  LET st == GreedyPass(sorted, prices,
              [quantity |-> quantity, remaining_cash |-> remaining_cash,
               allocated_any |-> FALSE])
  IN [quantity |-> st.quantity, remaining_cash |-> st.remaining_cash]

\* the while loop: passes repeat while cash is left and the last pass bought
RECURSIVE GreedyLoop(_, _, _, _)
GreedyLoop(sorted, prices, quantity, remaining_cash) ==
  IF remaining_cash > 0
  THEN LET st == GreedyPass(sorted, prices,
                   [quantity |-> quantity, remaining_cash |-> remaining_cash,
                    allocated_any |-> FALSE])
       IN IF st.allocated_any
          THEN GreedyLoop(sorted, prices, st.quantity, st.remaining_cash)
          ELSE [quantity |-> st.quantity, remaining_cash |-> st.remaining_cash]
  ELSE [quantity |-> quantity, remaining_cash |-> remaining_cash]

\* no calculator call is inside its while loop
NoLoop == [pc |-> "none", sorted |-> <<>>, quantity |-> <<>>, remaining_cash |-> 0]

\* stock_funds / stock.current_price is a float division: it raises
\* ZeroDivisionError when the price of a visited entry is 0.0 (the default of
\* the column); nothing tests the price before the division
RaisesZeroDivision(entries, prices) ==
  \E i \in DOMAIN entries : prices[entries[i].stock_id] = 0

\* no dict: what the caller has when the calculator raised (error), and the
\* empty value of the call records
NoTarget(error) == [order |-> <<>>, quantity |-> <<>>, error |-> error]

CalculateTargetAllocations(portfolio_allocations, total_value, portfolios, prices) ==
  LET entries == AllocationEntries(portfolio_allocations, portfolios, prices)
      floors == FloorAllocations(entries, total_value, prices, EmptyTarget)
      spent == TargetSpent(floors.order, floors.quantity, prices)
      greedy == GreedyLoop(SortByPrice(floors.order, prices), prices,
                           floors.quantity, total_value - spent)
  IN IF RaisesZeroDivision(entries, prices) THEN NoTarget("ZeroDivisionError")
     ELSE [order |-> floors.order, quantity |-> greedy.quantity, error |-> ""]

\* ------------------------------------------------------------------------
\* Holdings queries
\* ------------------------------------------------------------------------
RECURSIVE SumQuantity(_)
SumQuantity(rows) ==
  IF rows = {} THEN 0
  ELSE LET h == CHOOSE x \in rows : TRUE IN h.quantity + SumQuantity(rows \ {h})

RECURSIVE SumMarketValue(_, _)
SumMarketValue(rows, prices) ==
  IF rows = {} THEN 0
  ELSE LET h == CHOOSE x \in rows : TRUE
       IN h.quantity * prices[h.stock_id] + SumMarketValue(rows \ {h}, prices)

\* the rows of a stock, whichever strategy they belong to
HoldingsFor_AnyStrategy(rows, strategy_id, stock_id) ==
  {h \in rows : h.stock_id = stock_id}

\* select(Holding).where(strategy_id == ..., stock_id == ...)
HoldingsFor(rows, strategy_id, stock_id) ==
  {h \in rows : h.strategy_id = strategy_id /\ h.stock_id = stock_id}

\* select(Holding, Stock).join(...).where(Holding.strategy_id == strategy_id)
StrategyHoldings(rows, strategy_id, prices) ==
  {h \in rows : h.strategy_id = strategy_id /\ h.stock_id \in DOMAIN prices}

\* the quantity of one row of the stock instead of the sum over its rows
CurrentQuantity_FirstRow(rows, strategy_id, stock_id) ==
  IF HoldingsFor(rows, strategy_id, stock_id) = {} THEN 0
  ELSE (CHOOSE h \in HoldingsFor(rows, strategy_id, stock_id) : TRUE).quantity

\* current_holdings[stock_id]["quantity"]: aggregated over the rows of a stock
CurrentQuantity(rows, strategy_id, stock_id) ==
  SumQuantity(HoldingsFor(rows, strategy_id, stock_id))

\* ------------------------------------------------------------------------
\* Rebalancing Action Generator: RebalancingService.calculate_rebalancing
\* ------------------------------------------------------------------------
Action(kind, stock_id, quantity, stock_price) ==
  [action |-> kind, stock_id |-> stock_id, quantity |-> quantity, price |-> stock_price]

TotalAmount(a) == a.quantity * a.price

RECURSIVE TotalRebalancingAmount(_)
TotalRebalancingAmount(actions) ==
  IF actions = <<>> THEN 0
  ELSE TotalAmount(Head(actions)) + TotalRebalancingAmount(Tail(actions))

\* a buy branch that applies the minimums in every mode, as the sell branch does
ShouldIncludeBuy_MinimumsAlways(is_cash_utilization, action_quantity, action_value) ==
  action_quantity >= MIN_ACTION_QUANTITY /\ action_value >= MIN_ACTION_VALUE

\* the buy branch: any size in cash-utilization mode, else both minimums
ShouldIncludeBuy(is_cash_utilization, action_quantity, action_value) ==
  is_cash_utilization
    \/ (action_quantity >= MIN_ACTION_QUANTITY /\ action_value >= MIN_ACTION_VALUE)

\* a sell branch that tests the share minimum alone
ShouldIncludeSell_QuantityOnly(action_quantity, action_value) ==
  action_quantity >= MIN_ACTION_QUANTITY

\* the sell branch: the minimums always apply
ShouldIncludeSell(action_quantity, action_value) ==
  action_quantity >= MIN_ACTION_QUANTITY /\ action_value >= MIN_ACTION_VALUE

\* the loop over target_allocations.items()
RECURSIVE TargetActions(_, _, _, _, _)
TargetActions(order, quantity, current, prices, is_cash_utilization) ==
  IF order = <<>> THEN <<>>
  ELSE LET s == Head(order)
           quantity_diff == quantity[s] - current[s]
           rest == TargetActions(Tail(order), quantity, current, prices, is_cash_utilization)
       IN IF quantity_diff > 0
          THEN IF ShouldIncludeBuy(is_cash_utilization, quantity_diff, quantity_diff * prices[s])
               THEN <<Action("buy", s, quantity_diff, prices[s])>> \o rest
               ELSE rest
          ELSE IF quantity_diff < 0
               THEN IF ShouldIncludeSell(-quantity_diff, (-quantity_diff) * prices[s])
                    THEN <<Action("sell", s, -quantity_diff, prices[s])>> \o rest
                    ELSE rest
               ELSE rest

\* the loop over current_holdings.items(): stocks held but not in the target
\* are sold completely; held_order is the order the holdings query returned
\* the stocks in
RECURSIVE RemovalActions(_, _, _, _)
RemovalActions(held_order, target_order, current, prices) ==
  IF held_order = <<>> THEN <<>>
  ELSE LET s == Head(held_order)
           rest == RemovalActions(Tail(held_order), target_order, current, prices)
       IN IF s \notin Range(target_order)
          THEN <<Action("sell", s, current[s], prices[s])>> \o rest
          ELSE rest

RECURSIVE MinPrice(_, _)
MinPrice(order, prices) ==
  IF Len(order) = 1 THEN prices[order[1]]
  ELSE LET m == MinPrice(Tail(order), prices)
       IN IF prices[Head(order)] <= m THEN prices[Head(order)] ELSE m

\* can_utilize_cash: at least MIN_ACTION_QUANTITY shares of the cheapest target stock
CanUtilizeCash(target_order, prices, remaining_cash) ==
  /\ target_order # <<>>
  /\ remaining_cash >= MinPrice(target_order, prices) * MIN_ACTION_QUANTITY

\* a gate that skips only while the cash can still be used
BelowThreshold_WhenCashUsable(total_rebalancing_amount, total_portfolio_value, can_utilize_cash) ==
  /\ total_portfolio_value > 0
  /\ can_utilize_cash
  /\ total_rebalancing_amount * 100 < REBALANCING_THRESHOLD_PERCENT * total_portfolio_value

\* the materiality gate: (amount / value) * 100 < REBALANCING_THRESHOLD_PERCENT
BelowThreshold(total_rebalancing_amount, total_portfolio_value, can_utilize_cash) ==
  /\ total_portfolio_value > 0
  /\ ~can_utilize_cash
  /\ total_rebalancing_amount * 100 < REBALANCING_THRESHOLD_PERCENT * total_portfolio_value

\* what one call computes, given the order in which the holdings query
\* returned the held stocks; an exception of the calculator leaves the call
\* before any action is built
Calculation(strategy, strategy_id, rows, portfolios, prices, held_order) ==
  LET mine == StrategyHoldings(rows, strategy_id, prices)
      current_value == SumMarketValue(mine, prices)
      current == [s \in DOMAIN prices |-> CurrentQuantity(mine, strategy_id, s)]
      total_available_funds == current_value + strategy.remaining_cash
      target == CalculateTargetAllocations(strategy.portfolio_allocations,
                                           total_available_funds, portfolios, prices)
      is_cash_utilization == strategy.remaining_cash * 1000 > current_value
      candidates == TargetActions(target.order, target.quantity, current, prices,
                                  is_cash_utilization)
                    \o RemovalActions(held_order, target.order, current, prices)
      can_utilize_cash == CanUtilizeCash(target.order, prices, strategy.remaining_cash)
      skipped == BelowThreshold(TotalRebalancingAmount(candidates),
                                total_available_funds, can_utilize_cash)
  IN IF target.error # ""
     THEN [current_value |-> current_value, target_value |-> 0, actions |-> <<>>,
           candidates |-> <<>>, target |-> target, funds |-> total_available_funds,
           error |-> target.error]
     ELSE [current_value |-> current_value,
           target_value |-> TargetSpent(target.order, target.quantity, prices),
           actions |-> IF skipped THEN <<>> ELSE candidates,
           candidates |-> candidates,
           target |-> target,
           funds |-> total_available_funds,
           error |-> ""]

\* the stocks of the strategy's holding rows
HeldStocks(rows, strategy_id, prices) ==
  {h.stock_id : h \in StrategyHoldings(rows, strategy_id, prices)}

\* the held stocks that are no key of target_allocations, the ones the loop
\* over current_holdings.items() emits a sell for; the order in which the dict
\* yields them is the order of their sells
LeavingStocks(strategy, strategy_id, rows, portfolios, prices) ==
  HeldStocks(rows, strategy_id, prices)
    \ {e.stock_id : e \in Range(AllocationEntries(strategy.portfolio_allocations,
                                                 portfolios, prices))}

\* RebalancingHistory(strategy_id=..., actions=..., executed=False); the
\* columns undone and undone_at are those the service reads and writes
NewRecord(strategy_id, actions, now) ==
  [strategy_id |-> strategy_id, actions |-> actions, executed |-> FALSE,
   undone |-> FALSE, undone_at |-> 0, created_at |-> now]

\* a record for every call, with or without actions
SaveHistory_Always(records, strategy_id, actions, now) ==
  Append(records, NewRecord(strategy_id, actions, now))

\* db.add(rebalancing_history) only when the returned action list is not empty
SaveHistory(records, strategy_id, actions, now) ==
  IF actions # <<>> THEN Append(records, NewRecord(strategy_id, actions, now))
  ELSE records

Call(op, strategy_id, rebalancing_id, status) ==
  [op |-> op, strategy_id |-> strategy_id, rebalancing_id |-> rebalancing_id,
   status |-> status, actions |-> <<>>, candidates |-> <<>>, current_value |-> 0,
   target_value |-> 0, target |-> NoTarget(""), funds |-> 0, records |-> <<>>]

\* a call that ran calculate_rebalancing, with the RebalancingCalculation it
\* got, or the exception that left it
CalculationCall(op, strategy_id, c) ==
  [Call(op, strategy_id, 0, IF c.error = "" THEN "ok" ELSE c.error) EXCEPT
     !.actions = c.actions, !.candidates = c.candidates,
     !.current_value = c.current_value, !.target_value = c.target_value,
     !.target = c.target, !.funds = c.funds]

\* nothing to compare an undo with
NoSnapshot == [rebalancing_id |-> 0, remaining_cash |-> 0, holdings |-> {}]

\* a calculation that also rewrites current_value of the strategy's rows with
\* the prices it read
CalculateRebalancing_RefreshesValues(strategy_id) ==
  /\ steps < MaxSteps
  /\ strategy_id \in DOMAIN strategies
  /\ Len(history) < MaxRecords
  /\ \E held_order \in Orderings(LeavingStocks(strategies[strategy_id], strategy_id, holdings,
                                               DOMAIN portfolio_stocks, price)) :
       LET c == Calculation(strategies[strategy_id], strategy_id, holdings,
                            DOMAIN portfolio_stocks, price, held_order)
       IN /\ history' = SaveHistory(history, strategy_id, c.actions, clock)
          /\ clock' = IF c.actions # <<>> THEN clock + 1 ELSE clock
          /\ lastCall' = CalculationCall("calculate", strategy_id, c)
  /\ holdings' = {IF h.strategy_id = strategy_id /\ h.stock_id \in DOMAIN price
                  THEN [h EXCEPT !.current_value = h.quantity * price[h.stock_id]]
                  ELSE h : h \in holdings}
  /\ preExecute' = NoSnapshot
  /\ UNCHANGED <<price, portfolio_stocks, strategies, next_holding_id, edits>>
  /\ UNCHANGED <<session, requests, serial>>
  /\ steps' = steps + 1
  /\ UNCHANGED loop

\* POST /strategies/{id}/rebalance/calculate
CalculateRebalancing(strategy_id) ==
  /\ steps < MaxSteps
  /\ strategy_id \in DOMAIN strategies
  /\ Len(history) < MaxRecords
  /\ \E held_order \in Orderings(LeavingStocks(strategies[strategy_id], strategy_id, holdings,
                                               DOMAIN portfolio_stocks, price)) :
       LET c == Calculation(strategies[strategy_id], strategy_id, holdings,
                            DOMAIN portfolio_stocks, price, held_order)
       IN /\ history' = SaveHistory(history, strategy_id, c.actions, clock)
          /\ clock' = IF c.actions # <<>> THEN clock + 1 ELSE clock
          /\ lastCall' = CalculationCall("calculate", strategy_id, c)
  /\ preExecute' = NoSnapshot
  /\ UNCHANGED <<price, portfolio_stocks, strategies, holdings, next_holding_id, edits>>
  /\ UNCHANGED <<session, requests, serial>>
  /\ steps' = steps + 1
  /\ UNCHANGED loop

\* ------------------------------------------------------------------------
\* Initial Holdings Builder: StrategyService.calculate_initial_holdings
\* ------------------------------------------------------------------------
Holding(id, strategy_id, portfolio_id, stock_id, quantity, average_price, current_value) ==
  [id |-> id, strategy_id |-> strategy_id, portfolio_id |-> portfolio_id,
   stock_id |-> stock_id, quantity |-> quantity, average_price |-> average_price,
   current_value |-> current_value]

\* one row per (portfolio allocation, stock) whose floor quantity is positive
RECURSIVE InitialHoldings(_, _, _, _, _)
InitialHoldings(entries, strategy_id, total_funds, prices, acc) ==
  IF entries = <<>> THEN acc
  ELSE LET e == Head(entries)
           quantity == FloorQuantity(total_funds, e.percentage, e.pct, prices[e.stock_id])
           actual_cost == quantity * prices[e.stock_id]
           acc2 == IF quantity > 0
                   THEN [rows |-> acc.rows \cup
                                  {Holding(acc.next_id, strategy_id, e.portfolio_id, e.stock_id,
                                           quantity, Whole(prices[e.stock_id]), actual_cost)},
                         next_id |-> acc.next_id + 1,
                         total_invested |-> acc.total_invested + actual_cost]
                   ELSE acc
       IN InitialHoldings(Tail(entries), strategy_id, total_funds, prices, acc2)

\* POST /strategies: create_strategy commits the Strategy row, then
\* calculate_initial_holdings adds the rows and sets remaining_cash. Its
\* division by a price of 0.0 raises after the Strategy row is committed: the
\* row stays with the column default of remaining_cash and without holdings
CreateStrategy(strategy_id, total_funds, portfolio_allocations) ==
  /\ steps < MaxSteps
  /\ strategy_id \notin DOMAIN strategies
  /\ LET entries == AllocationEntries(portfolio_allocations, DOMAIN portfolio_stocks, price)
         built == InitialHoldings(entries, strategy_id, total_funds, price,
                    [rows |-> {}, next_id |-> next_holding_id, total_invested |-> 0])
     IN IF RaisesZeroDivision(entries, price)
        THEN /\ strategies' = strategies @@
                  (strategy_id :> [total_funds |-> total_funds, remaining_cash |-> 0,
                                   portfolio_allocations |-> portfolio_allocations])
             /\ lastCall' = Call("create", strategy_id, 0, "ZeroDivisionError")
             /\ UNCHANGED <<holdings, next_holding_id>>
        ELSE /\ holdings' = holdings \cup built.rows
             /\ next_holding_id' = built.next_id
             /\ strategies' = strategies @@
                  (strategy_id :> [total_funds |-> total_funds,
                                   remaining_cash |-> total_funds - built.total_invested,
                                   portfolio_allocations |-> portfolio_allocations])
             /\ lastCall' = Call("create", strategy_id, 0, "ok")
  /\ preExecute' = NoSnapshot
  /\ UNCHANGED <<price, portfolio_stocks, history, clock, edits>>
  /\ UNCHANGED <<session, requests, serial>>
  /\ steps' = steps + 1
  /\ UNCHANGED loop

\* ------------------------------------------------------------------------
\* Execution/Undo state machine
\* ------------------------------------------------------------------------

\* .where(strategy_id == ..., executed == False).order_by(created_at.desc()).limit(1):
\* the id of the latest unexecuted record of the strategy, 0 when there is none
RECURSIVE LatestPending(_, _, _)
LatestPending(records, strategy_id, i) ==
  IF i = 0 THEN 0
  ELSE IF records[i].strategy_id = strategy_id /\ ~records[i].executed THEN i
       ELSE LatestPending(records, strategy_id, i - 1)

\* holding.average_price = total_cost / holding.quantity, as an exact fraction
AveragePriceAfterBuy(h, quantity, action_price) ==
  Frac(h.quantity * h.average_price[1] + quantity * action_price * h.average_price[2],
       h.average_price[2] * (h.quantity + quantity))

\* adding shares to an existing row
BuyInto(h, quantity, action_price) ==
  [h EXCEPT !.quantity = h.quantity + quantity,
            !.average_price = AveragePriceAfterBuy(h, quantity, action_price),
            !.current_value = (h.quantity + quantity) * action_price]

\* a sell that keeps the row whatever quantity is left
SellFrom_KeepsEmptyRow(h, quantity, action_price) ==
  {[h EXCEPT !.quantity = h.quantity - quantity,
             !.current_value = (h.quantity - quantity) * action_price]}

\* taking shares out of a row: the set of rows that replaces {h}
SellFrom(h, quantity, action_price) ==
  IF h.quantity - quantity <= 0 THEN {}
  ELSE {[h EXCEPT !.quantity = h.quantity - quantity,
                  !.current_value = (h.quantity - quantity) * action_price]}

\* a row created by a buy of a stock the strategy has no row for
BoughtHolding(id, strategy_id, a) ==
  Holding(id, strategy_id, 0, a.stock_id, a.quantity, Whole(a.price), a.quantity * a.price)

\* holding = None
NoHolding == Holding(0, 0, 0, 0, 0, Whole(0), 0)

\* the session state of execute_rebalancing after one more action, with h the
\* row that holdings[0] denoted (NoHolding: the query returned no row)
ExecuteAction(st, strategy_id, a, h) ==
  IF a.action = "buy"
  THEN IF h.id # 0
       THEN [st EXCEPT !.rows = (st.rows \ {h}) \cup {BuyInto(h, a.quantity, a.price)},
                       !.cash_for_purchases = @ + TotalAmount(a)]
       ELSE [st EXCEPT !.rows = st.rows \cup {BoughtHolding(st.next_id, strategy_id, a)},
                       !.next_id = @ + 1,
                       !.cash_for_purchases = @ + TotalAmount(a)]
  ELSE IF a.action = "sell" /\ h.id # 0
       THEN [st EXCEPT !.rows = (st.rows \ {h}) \cup SellFrom(h, a.quantity, a.price),
                       !.cash_from_sales = @ + TotalAmount(a)]
       ELSE st

\* the session state of undo_rebalancing after one more reversed action.
\* The function body imports datetime after the loop, which makes the name
\* local to the whole function: Holding(..., purchase_date=datetime.utcnow())
\* in the branch that recreates a row raises UnboundLocalError, and the
\* handler ends there without a commit
UndoAction(st, strategy_id, a, h) ==
  IF st.failed THEN st
  ELSE IF a.action = "buy"
  THEN IF h.id # 0
       THEN [st EXCEPT !.rows = (st.rows \ {h}) \cup SellFrom(h, a.quantity, a.price),
                       !.cash_from_sales = @ + TotalAmount(a)]
       ELSE [st EXCEPT !.cash_from_sales = @ + TotalAmount(a)]
  ELSE IF a.action = "sell"
       THEN IF h.id # 0
            THEN [st EXCEPT !.rows = (st.rows \ {h}) \cup {BuyInto(h, a.quantity, a.price)},
                            !.cash_for_purchases = @ + TotalAmount(a)]
            ELSE [st EXCEPT !.cash_for_purchases = @ + TotalAmount(a),
                            !.failed = TRUE]
       ELSE st

\* holdings[0] if holdings else None: the query has no ORDER BY, so any of the
\* matching rows can come first
FirstHoldingChoices(rows, strategy_id, stock_id) ==
  IF HoldingsFor(rows, strategy_id, stock_id) = {} THEN {NoHolding}
  ELSE HoldingsFor(rows, strategy_id, stock_id)

\* every session state the for loop over rebalancing.actions can end in
RECURSIVE ExecuteOutcomes(_, _, _)
ExecuteOutcomes(actions, strategy_id, st) ==
  IF actions = <<>> THEN {st}
  ELSE UNION {ExecuteOutcomes(Tail(actions), strategy_id,
                              ExecuteAction(st, strategy_id, Head(actions), h)) :
              h \in FirstHoldingChoices(st.rows, strategy_id, Head(actions).stock_id)}

RECURSIVE UndoOutcomes(_, _, _)
UndoOutcomes(actions, strategy_id, st) ==
  IF actions = <<>> THEN {st}
  ELSE UNION {UndoOutcomes(Tail(actions), strategy_id,
                           UndoAction(st, strategy_id, Head(actions), h)) :
              h \in FirstHoldingChoices(st.rows, strategy_id, Head(actions).stock_id)}

SessionStart == [rows |-> holdings, next_id |-> next_holding_id,
                 cash_from_sales |-> 0, cash_for_purchases |-> 0, failed |-> FALSE]

\* no request is inside execute_rebalancing or undo_rebalancing
NoSession ==
  [op |-> "none", strategy_id |-> 0, rebalancing_id |-> 0, i |-> 0,
   st |-> [rows |-> {}, next_id |-> 0, cash_from_sales |-> 0, cash_for_purchases |-> 0,
           failed |-> FALSE]]

\* the requests that can be inside execute_rebalancing or undo_rebalancing at
\* the same time
Requests == {1, 2}

\* no request: nothing read, nothing computed
NoRequest ==
  [op |-> "none", strategy_id |-> 0, rebalancing_id |-> 0, cash_read |-> 0,
   read_rows |-> {}, next_id |-> 0, st |-> NoSession.st, raced |-> FALSE]

NoRequests == [w \in Requests |-> NoRequest]

\* nothing to compare with
NoSerial == [outcomes |-> {}, commits |-> 0]

\* POST /strategies/{id}/rebalance/execute
ExecuteRebalancing(strategy_id) ==
  /\ steps < MaxSteps
  /\ strategy_id \in DOMAIN strategies
  /\ LET rebalancing_id == LatestPending(history, strategy_id, Len(history))
     IN IF rebalancing_id = 0
        THEN /\ lastCall' = Call("execute", strategy_id, 0, "noop")
             /\ preExecute' = NoSnapshot
             /\ UNCHANGED <<holdings, next_holding_id, strategies, history>>
        ELSE \E st \in ExecuteOutcomes(history[rebalancing_id].actions, strategy_id, SessionStart) :
               /\ holdings' = st.rows
               /\ next_holding_id' = st.next_id
               /\ strategies' = [strategies EXCEPT ![strategy_id].remaining_cash =
                                   @ + (st.cash_from_sales - st.cash_for_purchases)]
               /\ history' = [history EXCEPT ![rebalancing_id].executed = TRUE]
               /\ lastCall' = Call("execute", strategy_id, rebalancing_id, "ok")
               /\ preExecute' = [rebalancing_id |-> rebalancing_id,
                                 remaining_cash |-> strategies[strategy_id].remaining_cash,
                                 holdings |-> holdings]
  /\ UNCHANGED <<price, portfolio_stocks, clock, edits>>
  /\ UNCHANGED <<session, requests, serial>>
  /\ steps' = steps + 1
  /\ UNCHANGED loop

\* undo_rebalancing without its test of rebalancing.executed
UndoError_WithoutExecutedTest(records, rebalancing_id) ==
  IF rebalancing_id \notin DOMAIN records THEN "NotFound"
  ELSE IF records[rebalancing_id].undone THEN "InvalidState"
  ELSE ""

\* undo_rebalancing without its test of rebalancing.undone
UndoError_WithoutUndoneTest(records, rebalancing_id) ==
  IF rebalancing_id \notin DOMAIN records THEN "NotFound"
  ELSE IF ~records[rebalancing_id].executed THEN "InvalidState"
  ELSE ""

\* the ValueError undo_rebalancing raises before it touches anything, "" when
\* the record can be undone
UndoError(records, rebalancing_id) ==
  IF rebalancing_id \notin DOMAIN records THEN "NotFound"
  ELSE IF ~records[rebalancing_id].executed THEN "InvalidState"
  ELSE IF records[rebalancing_id].undone THEN "InvalidState"
  ELSE ""

\* POST /strategies/{id}/rebalance/{rebalancing_id}/undo
UndoRebalancing(strategy_id, rebalancing_id) ==
  /\ steps < MaxSteps
  /\ strategy_id \in DOMAIN strategies
  /\ IF rebalancing_id \notin DOMAIN history
        \/ history[rebalancing_id].strategy_id # strategy_id
     THEN /\ lastCall' = Call("undo", strategy_id, rebalancing_id, "NotFound")
          /\ preExecute' = NoSnapshot
          /\ UNCHANGED <<holdings, next_holding_id, strategies, history, clock>>
     ELSE IF UndoError(history, rebalancing_id) # ""
     THEN /\ lastCall' = Call("undo", strategy_id, rebalancing_id,
                              UndoError(history, rebalancing_id))
          /\ preExecute' = NoSnapshot
          /\ UNCHANGED <<holdings, next_holding_id, strategies, history, clock>>
     ELSE \E st \in UndoOutcomes(history[rebalancing_id].actions,
                                 history[rebalancing_id].strategy_id, SessionStart) :
            /\ IF st.failed
               THEN /\ lastCall' = Call("undo", strategy_id, rebalancing_id, "ServerError")
                    /\ UNCHANGED <<holdings, next_holding_id, strategies, history, clock>>
               ELSE /\ holdings' = st.rows
                    /\ next_holding_id' = st.next_id
                    /\ strategies' = [strategies EXCEPT
                                        ![history[rebalancing_id].strategy_id].remaining_cash =
                                          @ + (st.cash_from_sales - st.cash_for_purchases)]
                    /\ history' = [history EXCEPT ![rebalancing_id].undone = TRUE,
                                                  ![rebalancing_id].undone_at = clock]
                    /\ clock' = clock + 1
                    /\ lastCall' = Call("undo", strategy_id, rebalancing_id, "ok")
            /\ preExecute' = IF preExecute.rebalancing_id = rebalancing_id
                             THEN preExecute ELSE NoSnapshot
  /\ UNCHANGED <<price, portfolio_stocks, edits>>
  /\ UNCHANGED <<session, requests, serial>>
  /\ steps' = steps + 1
  /\ UNCHANGED loop

\* the route's query ordered by created_at ascending
OldestPendingHistory(records, strategy_id, i) ==
  LET pending == {r \in 1..i : records[r].strategy_id = strategy_id /\ ~records[r].executed}
  IN IF pending = {} THEN 0 ELSE CHOOSE r \in pending : \A q \in pending : r <= q

\* the query of get_pending_rebalancing: latest unexecuted record of the
\* strategy, 0 when there is none
RECURSIVE PendingHistory(_, _, _)
PendingHistory(records, strategy_id, i) ==
  IF i = 0 THEN 0
  ELSE IF records[i].strategy_id = strategy_id /\ ~records[i].executed THEN i
       ELSE PendingHistory(records, strategy_id, i - 1)

\* GET /strategies/{id}/rebalance/pending
GetPendingRebalancing(strategy_id) ==
  /\ steps < MaxSteps
  /\ strategy_id \in DOMAIN strategies
  /\ LET rebalancing_id == PendingHistory(history, strategy_id, Len(history))
     IN lastCall' = [Call("pending", strategy_id, rebalancing_id, "ok") EXCEPT
                       !.actions = IF rebalancing_id = 0 THEN <<>>
                                   ELSE history[rebalancing_id].actions]
  /\ preExecute' = NoSnapshot
  /\ UNCHANGED <<price, portfolio_stocks, strategies, holdings, next_holding_id,
                 history, clock, edits>>
  /\ UNCHANGED <<session, requests, serial>>
  /\ steps' = steps + 1
  /\ UNCHANGED loop

\* .where(strategy_id == ..., executed == True).order_by(created_at.desc()):
\* the ids of the executed records of the strategy, newest first
RECURSIVE ExecutedHistory(_, _, _)
ExecutedHistory(records, strategy_id, i) ==
  IF i = 0 THEN <<>>
  ELSE IF records[i].strategy_id = strategy_id /\ records[i].executed
       THEN <<i>> \o ExecutedHistory(records, strategy_id, i - 1)
       ELSE ExecutedHistory(records, strategy_id, i - 1)

\* GET /strategies/{id}/rebalancing-history
GetRebalancingHistory(strategy_id) ==
  /\ steps < MaxSteps
  /\ strategy_id \in DOMAIN strategies
  /\ lastCall' = [Call("history", strategy_id, 0, "ok") EXCEPT
                    !.records = ExecutedHistory(history, strategy_id, Len(history))]
  /\ preExecute' = NoSnapshot
  /\ UNCHANGED <<price, portfolio_stocks, strategies, holdings, next_holding_id,
                 history, clock, edits>>
  /\ UNCHANGED <<session, requests, serial>>
  /\ steps' = steps + 1
  /\ UNCHANGED loop

\* ------------------------------------------------------------------------
\* Portfolio-Change Propagator
\* ------------------------------------------------------------------------

\* the elements of a set of ids in ascending order (iteration order of a
\* Python set of small ints)
RECURSIVE Ascending(_)
Ascending(S) ==
  IF S = {} THEN <<>>
  ELSE LET m == CHOOSE x \in S : \A y \in S : x <= y IN <<m>> \o Ascending(S \ {m})

\* stock_allocations.pop(str(stock_id), None) for every removed stock
RECURSIVE PopRemoved(_, _)
PopRemoved(stock_allocations, removed_stocks) ==
  IF stock_allocations = <<>> THEN <<>>
  ELSE IF Head(stock_allocations).stock_id \in removed_stocks
       THEN PopRemoved(Tail(stock_allocations), removed_stocks)
       ELSE <<Head(stock_allocations)>> \o PopRemoved(Tail(stock_allocations), removed_stocks)

\* stock_allocations[str(stock_id)] = pct: replaces the value of an existing
\* key in place, appends a new key
SetAllocation(stock_allocations, stock_id, pct) ==
  IF \E i \in DOMAIN stock_allocations : stock_allocations[i].stock_id = stock_id
  THEN [i \in DOMAIN stock_allocations |->
          IF stock_allocations[i].stock_id = stock_id
          THEN [stock_id |-> stock_id, pct |-> pct] ELSE stock_allocations[i]]
  ELSE Append(stock_allocations, [stock_id |-> stock_id, pct |-> pct])

RECURSIVE SetAllocations(_, _, _)
SetAllocations(stock_allocations, added_order, pct) ==
  IF added_order = <<>> THEN stock_allocations
  ELSE SetAllocations(SetAllocation(stock_allocations, Head(added_order), pct),
                      Tail(added_order), pct)

\* added securities get their share while the remaining ones keep theirs
UpdatedStockAllocations_NoScaling(stock_allocations, removed_stocks, added_stocks) ==
  LET remaining == PopRemoved(stock_allocations, removed_stocks)
      total_stocks == Len(remaining) + Cardinality(added_stocks)
  IN IF added_stocks = {} THEN remaining
     ELSE SetAllocations(remaining, Ascending(added_stocks), Frac(100, total_stocks))

\* the stock_allocations of the edited portfolio after removal and addition
UpdatedStockAllocations(stock_allocations, removed_stocks, added_stocks) ==
  LET remaining == PopRemoved(stock_allocations, removed_stocks)
      total_stocks == Len(remaining) + Cardinality(added_stocks)
      scaled == [i \in DOMAIN remaining |->
                   [stock_id |-> remaining[i].stock_id,
                    pct |-> Frac(remaining[i].pct[1] * Len(remaining),
                                 remaining[i].pct[2] * total_stocks)]]
  IN IF added_stocks = {} THEN remaining
     ELSE IF remaining # <<>>
          THEN SetAllocations(scaled, Ascending(added_stocks), Frac(100, total_stocks))
          ELSE SetAllocations(remaining, Ascending(added_stocks),
                              Frac(100, Cardinality(added_stocks)))

\* _update_strategy_allocations_after_portfolio_change: only the first
\* allocation of the portfolio is rewritten (break)
RECURSIVE UpdateStrategyAllocations(_, _, _, _)
UpdateStrategyAllocations(portfolio_allocations, portfolio_id, removed_stocks, added_stocks) ==
  IF portfolio_allocations = <<>> THEN <<>>
  ELSE LET alloc == Head(portfolio_allocations)
       IN IF alloc.portfolio_id = portfolio_id
          THEN <<[alloc EXCEPT !.stock_allocations =
                    UpdatedStockAllocations(@, removed_stocks, added_stocks)]>>
               \o Tail(portfolio_allocations)
          ELSE <<alloc>> \o UpdateStrategyAllocations(Tail(portfolio_allocations),
                                                      portfolio_id, removed_stocks, added_stocks)

\* affected_strategies: the strategies with an allocation of the portfolio
AffectedStrategies(all, portfolio_id) ==
  {id \in DOMAIN all :
     \E i \in DOMAIN all[id].portfolio_allocations :
        all[id].portfolio_allocations[i].portfolio_id = portfolio_id}

\* handle_portfolio_change: for each affected strategy, rewrite and commit its
\* allocations, then calculate_rebalancing; db is [strategies, history, clock]
\* together with the last calculate_rebalancing call made. An exception of
\* calculate_rebalancing ends the loop, what was committed before it stays
RECURSIVE PropagateOutcomes(_, _, _, _, _, _)
PropagateOutcomes(affected, portfolio_id, removed_stocks, added_stocks, portfolios, db) ==
  IF affected = <<>> THEN {db}
  ELSE LET id == Head(affected)
           updated == [db.strategies EXCEPT ![id].portfolio_allocations =
                         UpdateStrategyAllocations(@, portfolio_id, removed_stocks, added_stocks)]
       IN UNION {
            LET c == Calculation(updated[id], id, holdings, portfolios, price, held_order)
                after == [strategies |-> updated,
                          history |-> SaveHistory(db.history, id, c.actions, db.clock),
                          clock |-> IF c.actions # <<>> THEN db.clock + 1 ELSE db.clock,
                          call |-> CalculationCall("update_portfolio", id, c)]
            IN IF c.error # "" THEN {after}
               ELSE PropagateOutcomes(Tail(affected), portfolio_id, removed_stocks,
                                      added_stocks, portfolios, after) :
            held_order \in Orderings(LeavingStocks(updated[id], id, holdings, portfolios, price))}

\* PUT /portfolios/{id}: store the new membership; when it changed, propagate
UpdatePortfolio(portfolio_id, new_stock_ids) ==
  /\ steps < MaxSteps
  /\ portfolio_id \in DOMAIN portfolio_stocks
  /\ edits < MaxEdits
  /\ Len(history) + Cardinality(AffectedStrategies(strategies, portfolio_id)) <= MaxRecords
  /\ portfolio_stocks' = [portfolio_stocks EXCEPT ![portfolio_id] = new_stock_ids]
  /\ edits' = edits + 1
  /\ LET old_stock_ids == portfolio_stocks[portfolio_id]
     IN IF old_stock_ids # new_stock_ids
        THEN \E db \in PropagateOutcomes(
                         Ascending(AffectedStrategies(strategies, portfolio_id)),
                         portfolio_id, old_stock_ids \ new_stock_ids,
                         new_stock_ids \ old_stock_ids, DOMAIN portfolio_stocks,
                         [strategies |-> strategies, history |-> history, clock |-> clock,
                          call |-> Call("update_portfolio", 0, 0, "ok")]) :
               /\ strategies' = db.strategies
               /\ history' = db.history
               /\ clock' = db.clock
               /\ lastCall' = db.call
        ELSE /\ lastCall' = Call("update_portfolio", 0, 0, "ok")
             /\ UNCHANGED <<strategies, history, clock>>
  /\ preExecute' = NoSnapshot
  /\ UNCHANGED <<price, holdings, next_holding_id>>
  /\ UNCHANGED <<session, requests, serial>>
  /\ steps' = steps + 1
  /\ UNCHANGED loop

\* the price feed sets Stock.current_price
PriceFeed(stock_id, new_price) ==
  /\ steps < MaxSteps
  /\ stock_id \in DOMAIN price
  /\ new_price # price[stock_id]
  /\ price' = [price EXCEPT ![stock_id] = new_price]
  /\ lastCall' = Call("price", 0, 0, "ok")
  /\ preExecute' = NoSnapshot
  /\ UNCHANGED <<portfolio_stocks, strategies, holdings, next_holding_id, history,
                 clock, edits>>
  /\ UNCHANGED <<session, requests, serial>>
  /\ steps' = steps + 1
  /\ UNCHANGED loop

\* ------------------------------------------------------------------------
\* Specification: the handlers run one at a time
\* ------------------------------------------------------------------------
Init ==
  /\ price = InitialPrice
  /\ portfolio_stocks = InitialPortfolioStocks
  /\ strategies = <<>>
  /\ holdings = {}
  /\ next_holding_id = 1
  /\ history = <<>>
  /\ clock = 1
  /\ edits = 0
  /\ lastCall = Call("none", 0, 0, "ok")
  /\ preExecute = NoSnapshot
  /\ session = NoSession
  /\ requests = NoRequests
  /\ serial = NoSerial
  /\ steps = 0
  /\ loop = NoLoop

Next ==
  \/ \E id \in StrategyIds, f \in FundsChoices, a \in AllocationChoices : CreateStrategy(id, f, a)
  \/ \E id \in StrategyIds : CalculateRebalancing(id)
  \/ \E id \in StrategyIds : ExecuteRebalancing(id)
  \/ \E id \in StrategyIds, r \in 1..MaxRecords : UndoRebalancing(id, r)
  \/ \E id \in StrategyIds : GetPendingRebalancing(id)
  \/ \E p \in Portfolios : \E m \in PortfolioEditChoices[p] : UpdatePortfolio(p, m)
  \/ \E s \in Stocks : \E v \in PriceChoices[s] : PriceFeed(s, v)

Spec == Init /\ [][Next]_vars

\* ------------------------------------------------------------------------
\* Properties
\* ------------------------------------------------------------------------

\* the stocks named in the actions of a record
ActionStocks(actions) == {actions[i].stock_id : i \in DOMAIN actions}

\* the last step was an undo of the record that the step before it executed,
\* and the record was found and in the Executed state
UndoFollowedExecute ==
  /\ lastCall.op = "undo"
  /\ lastCall.status \in {"ok", "ServerError"}
  /\ preExecute.rebalancing_id = lastCall.rebalancing_id

\* C1: execute followed directly by undo of the same record leaves
\* remaining_cash and the aggregated quantity of every security named in the
\* record's actions as they were before the execute
C1_RoundTripRestores ==
  UndoFollowedExecute =>
    /\ strategies[lastCall.strategy_id].remaining_cash = preExecute.remaining_cash
    /\ \A s \in ActionStocks(history[lastCall.rebalancing_id].actions) :
         CurrentQuantity(holdings, lastCall.strategy_id, s)
           = CurrentQuantity(preExecute.holdings, lastCall.strategy_id, s)

\* the last step ran calculate_rebalancing for a strategy (directly or from
\* the propagator); holdings, cash and prices are still those it read
Calculated ==
  /\ lastCall.op \in {"calculate", "update_portfolio"}
  /\ lastCall.strategy_id # 0

\* a security the strategy holds that is not a key of target_allocations
Removed(s) ==
  /\ CurrentQuantity(holdings, lastCall.strategy_id, s) > 0
  /\ s \notin Range(lastCall.target.order)

\* the record the last calculation persisted, as a set (empty when it persisted none)
PersistedByLastCall ==
  IF lastCall.actions # <<>> THEN {history[Len(history)]} ELSE {}

\* a sell meets both minimums or is the sale of a removed security
SellIsMaterialOrExit(a) ==
  a.action = "sell" =>
    \/ a.quantity >= MIN_ACTION_QUANTITY /\ a.quantity * a.price >= MIN_ACTION_VALUE
    \/ Removed(a.stock_id)

\* C6: a sell that calculate_rebalancing returns or persists has at least
\* MIN_ACTION_QUANTITY shares and MIN_ACTION_VALUE value, unless its security
\* is held and absent from the target allocations, in cash-utilization mode
\* or not
C6_SellThresholds ==
  Calculated =>
    /\ \A i \in DOMAIN lastCall.actions : SellIsMaterialOrExit(lastCall.actions[i])
    /\ \A r \in PersistedByLastCall :
         \A i \in DOMAIN r.actions : SellIsMaterialOrExit(r.actions[i])

\* C7: the returned actions hold a sell of the whole aggregated quantity of
\* every security that is held and absent from the target allocations
C7_FullExitAlwaysReturned ==
  Calculated =>
    \A s \in Stocks :
      Removed(s) =>
        \E i \in DOMAIN lastCall.actions :
          /\ lastCall.actions[i].action = "sell"
          /\ lastCall.actions[i].stock_id = s
          /\ lastCall.actions[i].quantity = CurrentQuantity(holdings, lastCall.strategy_id, s)

PendingOf(records, strategy_id) ==
  {r \in DOMAIN records : records[r].strategy_id = strategy_id /\ ~records[r].executed}

Latest(S) == CHOOSE r \in S : \A q \in S : q <= r

\* the summed amount of the actions of one kind
RECURSIVE SumAmounts(_, _)
SumAmounts(actions, kind) ==
  IF actions = <<>> THEN 0
  ELSE (IF Head(actions).action = kind THEN TotalAmount(Head(actions)) ELSE 0)
       + SumAmounts(Tail(actions), kind)

\* the step was an execute that found record r: only r's flag changes
ExecutedOnly(r) == history' = [history EXCEPT ![r].executed = TRUE]

\* C4: execute picks the latest Pending record of the strategy, every
\* action of it takes effect (cash moves by the amount of every action, the
\* quantity held of every named security changes), only that record becomes
\* executed, and without a Pending record nothing changes
C4_ExecuteAppliesEveryAction ==
  [][lastCall'.op = "execute" =>
       LET id == lastCall'.strategy_id
           pending == PendingOf(history, id)
       IN IF pending = {}
          THEN holdings' = holdings /\ strategies' = strategies /\ history' = history
          ELSE LET r == Latest(pending)
                   actions == history[r].actions
               IN /\ lastCall'.rebalancing_id = r
                  /\ ExecutedOnly(r)
                  /\ strategies'[id].remaining_cash = strategies[id].remaining_cash
                       + SumAmounts(actions, "sell") - SumAmounts(actions, "buy")
                  /\ \A i \in DOMAIN actions :
                       CurrentQuantity(holdings', id, actions[i].stock_id)
                         # CurrentQuantity(holdings, id, actions[i].stock_id)]_vars

\* C28: right after an execute that applied a record, another execute of
\* the same strategy changes no holding and no cash, and the pending query
\* of the same strategy returns no action, however many calculations came
\* before the first execute
C28_ExecuteIdempotent ==
  [][(lastCall.op = "execute" /\ lastCall.status = "ok" /\ lastCall.rebalancing_id # 0
        /\ lastCall'.strategy_id = lastCall.strategy_id) =>
       /\ lastCall'.op = "execute" =>
            /\ holdings' = holdings
            /\ strategies'[lastCall.strategy_id].remaining_cash
                 = strategies[lastCall.strategy_id].remaining_cash
       /\ lastCall'.op = "pending" => lastCall'.actions = <<>>]_vars

\* C13: right after a strategy is created, the rows created for every
\* security total the quantity that the target allocation calculator gives
\* for F = total_funds, and remaining_cash is total_funds less the cost of
\* the rows
C13_BuilderMatchesCalculator ==
  (lastCall.op = "create" /\ lastCall.status = "ok") =>
    LET id == lastCall.strategy_id
        target == CalculateTargetAllocations(strategies[id].portfolio_allocations,
                    strategies[id].total_funds, DOMAIN portfolio_stocks, price)
    IN /\ \A s \in DOMAIN price :
            CurrentQuantity(holdings, id, s)
              = IF s \in Range(target.order) THEN target.quantity[s] ELSE 0
       /\ strategies[id].remaining_cash
            = strategies[id].total_funds
                - SumMarketValue(StrategyHoldings(holdings, id, price), price)

\* sum of the percentages of a list of portfolio allocations
RECURSIVE SumPercentage(_)
SumPercentage(portfolio_allocations) ==
  IF portfolio_allocations = <<>> THEN 0
  ELSE Head(portfolio_allocations).percentage + SumPercentage(Tail(portfolio_allocations))

\* sum of the stock percentages of one portfolio allocation, as a fraction
RECURSIVE SumPct(_)
SumPct(stock_allocations) ==
  IF stock_allocations = <<>> THEN Whole(0)
  ELSE LET p == Head(stock_allocations).pct
           r == SumPct(Tail(stock_allocations))
       IN Frac(p[1] * r[2] + r[1] * p[2], p[2] * r[2])

\* abs(total - 100.0) <= 0.01 for a fraction
WithinTolerance(f) ==
  /\ 100 * f[1] - 10000 * f[2] <= f[2]
  /\ 10000 * f[2] - 100 * f[1] <= f[2]

\* C14: in every reachable state the portfolio percentages of every strategy
\* sum to 100 within 0.01, and so do the stock percentages of each of its
\* portfolio allocations
C14_AllocationSums ==
  \A id \in DOMAIN strategies :
    LET allocs == strategies[id].portfolio_allocations
    IN /\ WithinTolerance(Whole(SumPercentage(allocs)))
       /\ \A i \in DOMAIN allocs : WithinTolerance(SumPct(allocs[i].stock_allocations))

\* C15: a call of calculate_rebalancing adds one record when the action list
\* it returns is not empty and none when it is empty; the new record belongs
\* to the strategy, is Pending, and holds the returned actions in the same
\* order with the same kind, security, quantity and price; no other record
\* changes
C15_OneRecordPerCalculation ==
  [][lastCall'.op = "calculate" =>
       IF lastCall'.actions # <<>>
       THEN /\ Len(history') = Len(history) + 1
            /\ SubSeq(history', 1, Len(history)) = history
            /\ history'[Len(history')].strategy_id = lastCall'.strategy_id
            /\ ~history'[Len(history')].executed
            /\ ~history'[Len(history')].undone
            /\ history'[Len(history')].actions = lastCall'.actions
       ELSE history' = history]_vars

\* a calculation has returned two actions and left them in a second Pending
\* record next to an executed one
C15_Witness ==
  /\ lastCall.op = "calculate"
  /\ Len(lastCall.actions) >= 2
  /\ Len(history) = 2
  /\ history[1].executed
  /\ ~history[2].executed
  /\ history[2].actions = lastCall.actions

\* the rows of one (strategy, security) pair
RowsOfPair(rows, strategy_id, stock_id) ==
  {h \in rows : h.strategy_id = strategy_id /\ h.stock_id = stock_id}

\* the ids of the rows that a step changed, deleted or added
TouchedRowIds(old, new) == {h.id : h \in (old \ new) \cup (new \ old)}

\* C24: a calculation takes as current quantity of a security the sum over
\* all rows of the (strategy, security) pair: every buy is for the target
\* quantity minus that sum and every sell for that sum minus the target
\* quantity (the whole sum for a security that is no target); an execute or
\* undo changes, deletes or adds at most one row per pair, every other row of
\* the pair keeps its quantity, average_price and current_value
C24_SumForCalculationOneRowForExecution ==
  [][/\ (lastCall'.op = "calculate" /\ lastCall'.status = "ok") =>
          \A i \in DOMAIN lastCall'.candidates :
            LET a == lastCall'.candidates[i]
                held == SumQuantity(RowsOfPair(holdings, lastCall'.strategy_id, a.stock_id))
                wanted == IF a.stock_id \in Range(lastCall'.target.order)
                          THEN lastCall'.target.quantity[a.stock_id] ELSE 0
            IN IF a.action = "buy" THEN a.quantity = wanted - held
               ELSE a.quantity = held - wanted
     /\ lastCall'.op \in {"execute", "undo"} =>
          \A s \in Stocks :
            Cardinality(TouchedRowIds(RowsOfPair(holdings, lastCall'.strategy_id, s),
                                      RowsOfPair(holdings', lastCall'.strategy_id, s))) <= 1]_vars

\* an execute has changed one of the two rows of a security and left the
\* other as it was, after a calculation over the sum of both
C24_Witness ==
  /\ lastCall.op = "execute" /\ lastCall.status = "ok"
  /\ preExecute.rebalancing_id # 0
  /\ \E s \in Stocks :
       LET before == RowsOfPair(preExecute.holdings, lastCall.strategy_id, s)
           after == RowsOfPair(holdings, lastCall.strategy_id, s)
       IN /\ Cardinality(before) = 2
          /\ Cardinality(before \cap after) = 1
          /\ Cardinality(TouchedRowIds(before, after)) = 1
          /\ \E i \in DOMAIN history[preExecute.rebalancing_id].actions :
               history[preExecute.rebalancing_id].actions[i].stock_id = s

\* C25: every holding row of a strategy holds at least one share: a row
\* whose quantity a sell or an undone buy brings to 0 or below is deleted,
\* and no row is created with a quantity of 0 or below
C25_RowsHoldShares ==
  \A h \in holdings : h.strategy_id \in DOMAIN strategies => h.quantity >= 1

\* an execute has sold a row out and the row is gone
C25_Witness ==
  /\ lastCall.op = "execute" /\ lastCall.status = "ok"
  /\ preExecute.rebalancing_id # 0
  /\ \E h \in preExecute.holdings : h.id \notin {x.id : x \in holdings}
  /\ holdings # {}

\* an undo has taken back the shares a buy put into a new row and the row is
\* gone
C25_WitnessUndo ==
  /\ lastCall.op = "undo" /\ lastCall.status = "ok"
  /\ holdings # {}
  /\ \E i \in DOMAIN history[lastCall.rebalancing_id].actions :
       LET a == history[lastCall.rebalancing_id].actions[i]
       IN /\ a.action = "buy"
          /\ HoldingsFor(holdings, lastCall.strategy_id, a.stock_id) = {}

\* the change of the aggregated quantity of the security of action a
QuantityChange(a, strategy_id, old, new) ==
  SumQuantity(RowsOfPair(new, strategy_id, a.stock_id))
    - SumQuantity(RowsOfPair(old, strategy_id, a.stock_id))

\* the value, at the recorded action prices, of the shares that came in
RECURSIVE ValueOfQuantityChanges(_, _, _, _)
ValueOfQuantityChanges(actions, strategy_id, old, new) ==
  IF actions = <<>> THEN 0
  ELSE QuantityChange(Head(actions), strategy_id, old, new) * Head(actions).price
       + ValueOfQuantityChanges(Tail(actions), strategy_id, old, new)

\* C26: for every action an execute applies or an undo reverses, the
\* aggregated quantity of its security changes by the action quantity or not
\* at all, and remaining_cash changes by the value, at the action prices, of
\* the shares that went out minus the shares that came in: holdings valued at
\* the action prices plus remaining_cash is the same before and after
C26_CashAndSharesMoveTogether ==
  [][(lastCall'.op \in {"execute", "undo"} /\ lastCall'.status = "ok"
        /\ lastCall'.rebalancing_id # 0) =>
       LET id == lastCall'.strategy_id
           actions == history[lastCall'.rebalancing_id].actions
       IN /\ \A i \in DOMAIN actions :
               LET a == actions[i]
                   comes_in == (lastCall'.op = "execute") <=> (a.action = "buy")
                   d == QuantityChange(a, id, holdings, holdings')
               IN d \in {0, IF comes_in THEN a.quantity ELSE 0 - a.quantity}
          /\ strategies'[id].remaining_cash - strategies[id].remaining_cash
               = 0 - ValueOfQuantityChanges(actions, id, holdings, holdings')]_vars

\* cash-utilization mode as the last calculation saw it
CashUtilization ==
  strategies[lastCall.strategy_id].remaining_cash * 1000 > lastCall.current_value

\* a calculation in cash-utilization mode returned a sell of a target security
C6_Witness ==
  /\ Calculated
  /\ CashUtilization
  /\ \E i \in DOMAIN lastCall.actions :
       /\ lastCall.actions[i].action = "sell"
       /\ lastCall.actions[i].stock_id \in Range(lastCall.target.order)

\* the gate of the claim, from what the last calculation read and computed
GateApplies ==
  /\ lastCall.funds > 0
  /\ \A s \in Range(lastCall.target.order) :
       strategies[lastCall.strategy_id].remaining_cash < MIN_ACTION_QUANTITY * price[s]
  /\ TotalRebalancingAmount(lastCall.candidates) * 100
       < REBALANCING_THRESHOLD_PERCENT * lastCall.funds

\* C8: when funds are positive, the cash cannot buy MIN_ACTION_QUANTITY shares
\* of the cheapest target security and the candidate actions sum to less than
\* REBALANCING_THRESHOLD_PERCENT of the funds, calculate_rebalancing returns
\* no action and the record store stays as it was
C8_MaterialityGate ==
  [][(lastCall'.op = "calculate" /\ GateApplies') =>
       (lastCall'.actions = <<>> /\ history' = history)]_vars

\* the gate has discarded a non-empty list of candidate actions
C8_Witness ==
  /\ lastCall.op = "calculate"
  /\ GateApplies
  /\ lastCall.candidates # <<>>
  /\ lastCall.actions = <<>>

\* ------------------------------------------------------------------------
\* Specification of the calculator alone: the initial state draws the funds,
\* the allocation list and the prices, the only step runs the calculator
\* ------------------------------------------------------------------------

\* allocation lists as posted by a client or as left by one portfolio edit
CalcAllocationChoices ==
  AllocationChoices \cup
  {UpdateStrategyAllocations(a, p, InitialPortfolioStocks[p] \ m, m \ InitialPortfolioStocks[p]) :
     a \in AllocationChoices, p \in Portfolios, m \in {{1, 2}, {2, 3}, {3}, {1, 3}}}

PriceCombinations ==
  {f \in [Stocks -> {40, 100, 120, 300}] : \A s \in Stocks : f[s] \in PriceChoices[s]}

InitCalc ==
  /\ price \in PriceCombinations
  /\ portfolio_stocks = InitialPortfolioStocks
  /\ \E total_value \in (0..MaxFunds) \cup FundsChoices, a \in CalcAllocationChoices :
       /\ total_value > MaxFunds => a \in AllocationChoices
       /\ strategies = (1 :> [total_funds |-> total_value, remaining_cash |-> total_value,
                              portfolio_allocations |-> a])
       /\ lastCall = [Call("input", 1, 0, "ok") EXCEPT !.funds = total_value]
  /\ holdings = {}
  /\ next_holding_id = 1
  /\ history = <<>>
  /\ clock = 1
  /\ edits = 0
  /\ preExecute = NoSnapshot
  /\ session = NoSession
  /\ requests = NoRequests
  /\ serial = NoSerial
  /\ steps = 0
  /\ loop = NoLoop

\* target_allocations = await self._calculate_target_allocations(db, strategy, total_value)
RunCalculator ==
  /\ steps < MaxSteps
  /\ lastCall.op = "input"
  /\ LET target == CalculateTargetAllocations(strategies[1].portfolio_allocations,
                                              lastCall.funds, DOMAIN portfolio_stocks, price)
     IN lastCall' = [Call("target", 1, 0, IF target.error = "" THEN "ok" ELSE target.error)
                       EXCEPT !.funds = lastCall.funds, !.target = target]
  /\ UNCHANGED <<price, portfolio_stocks, strategies, holdings, next_holding_id, history,
                 clock, edits, preExecute, requests, serial>>
  /\ UNCHANGED <<session, requests, serial>>
  /\ steps' = steps + 1
  /\ UNCHANGED loop

NextCalc == RunCalculator

SpecCalc == InitCalc /\ [][NextCalc]_vars

\* the calculator has returned lastCall.target for lastCall.funds
TargetReturned == lastCall.op = "target" /\ lastCall.status = "ok"

LeftoverCash ==
  lastCall.funds - TargetSpent(lastCall.target.order, lastCall.target.quantity, price)

\* C10: after the calculator returns, the leftover cash is below the price of
\* every security that has a nonzero target quantity
C10_LeftoverBelowPrices ==
  TargetReturned =>
    \A s \in Range(lastCall.target.order) :
      lastCall.target.quantity[s] # 0 => LeftoverCash < price[s]

\* the floor quantities of the same input
FloorsOfLastCall ==
  FloorAllocations(AllocationEntries(strategies[1].portfolio_allocations,
                                     DOMAIN portfolio_stocks, price),
                   lastCall.funds, price, EmptyTarget)

\* the greedy loop gave a security two shares more than its floor quantity,
\* left some cash over, and a dearer security has a nonzero target
C10_Witness ==
  /\ TargetReturned
  /\ LeftoverCash > 0
  /\ \E s, t \in Range(lastCall.target.order) :
       /\ lastCall.target.quantity[s] >= FloorsOfLastCall.quantity[s] + 2
       /\ price[t] > price[s]
       /\ lastCall.target.quantity[t] > 0

\* the floor quantity of security s under each portfolio allocation that
\* lists it, summed over the allocation list
RECURSIVE SumOfFloors(_, _, _, _)
SumOfFloors(portfolio_allocations, F, s, prices) ==
  IF portfolio_allocations = <<>> THEN 0
  ELSE LET alloc == Head(portfolio_allocations)
           listed == {i \in DOMAIN alloc.stock_allocations :
                        alloc.stock_allocations[i].stock_id = s}
           pct == alloc.stock_allocations[CHOOSE i \in listed : TRUE].pct
       IN (IF listed = {} THEN 0
           ELSE (F * alloc.percentage * pct[1]) \div (100 * 100 * pct[2] * prices[s]))
          + SumOfFloors(Tail(portfolio_allocations), F, s, prices)

\* the securities that some portfolio allocation of the list names
ListedStocks(portfolio_allocations) ==
  UNION {{e.stock_id : e \in Range(portfolio_allocations[i].stock_allocations)} :
           i \in DOMAIN portfolio_allocations}

\* what the floor quantities leave of the funds F
RECURSIVE LeftoverOfFloors(_, _, _, _)
LeftoverOfFloors(portfolio_allocations, F, S, prices) ==
  IF S = {} THEN F
  ELSE LET s == CHOOSE x \in S : TRUE
       IN LeftoverOfFloors(portfolio_allocations, F, S \ {s}, prices)
            - SumOfFloors(portfolio_allocations, F, s, prices) * prices[s]

\* the securities of S with the cheapest first
AscendingPriceOrder(S, prices) ==
  CHOOSE turns \in Orderings(S) :
    \A i, j \in DOMAIN turns : i < j => prices[turns[i]] < prices[turns[j]]

\* the number of turns of security s, from turn k on, at which the leftover
\* is at least its price; the passes go round the turns for as long as the
\* leftover can pay for any security
RECURSIVE SharesInTurns(_, _, _, _, _)
SharesInTurns(turns, prices, leftover, k, s) ==
  IF turns = <<>> \/ \A i \in DOMAIN turns : leftover < prices[turns[i]] THEN 0
  ELSE LET t == turns[((k - 1) % Len(turns)) + 1]
       IN IF leftover >= prices[t]
          THEN (IF t = s THEN 1 ELSE 0)
               + SharesInTurns(turns, prices, leftover - prices[t], k + 1, s)
          ELSE SharesInTurns(turns, prices, leftover, k + 1, s)

\* Scenario A: one portfolio at 100%, two securities at 50/50, prices 100 and 300
ScenarioA ==
  /\ lastCall.funds = 10000
  /\ strategies[1].portfolio_allocations =
       << [portfolio_id |-> 1, percentage |-> 100,
           stock_allocations |-> << [stock_id |-> 1, pct |-> Whole(50)],
                                    [stock_id |-> 2, pct |-> Whole(50)] >>] >>
  /\ price[1] = 100
  /\ price[2] = 300

\* C11: the target quantity of a security is the sum of its floor quantities
\* over the portfolio allocations that list it, plus one share for every
\* greedy pass in which the leftover was at least its price at its turn in
\* ascending-price order; funds of 10000, one portfolio at 100%, 50/50 at
\* prices 100 and 300 give 52 and 16 shares and a leftover of 0
C11_TargetQuantities ==
  TargetReturned =>
    LET allocs == strategies[1].portfolio_allocations
        listed == ListedStocks(allocs)
        turns == AscendingPriceOrder(listed, price)
        leftover == LeftoverOfFloors(allocs, lastCall.funds, listed, price)
    IN /\ Range(lastCall.target.order) = listed
       /\ \A s \in listed :
            lastCall.target.quantity[s] =
              SumOfFloors(allocs, lastCall.funds, s, price)
                + SharesInTurns(turns, price, leftover, 1, s)
       /\ ScenarioA =>
            /\ lastCall.target.quantity = (1 :> 52) @@ (2 :> 16)
            /\ LeftoverCash = 0

\* the calculator has returned for Scenario A after two greedy passes that
\* each gave the cheaper security one share
C11_Witness ==
  /\ TargetReturned
  /\ ScenarioA
  /\ FloorsOfLastCall.quantity = (1 :> 50) @@ (2 :> 16)
  /\ lastCall.target.quantity[1] = 52

\* the shares the greedy loop added to the floor quantity of a security
ExtraShares(s) == lastCall.target.quantity[s] - FloorsOfLastCall.quantity[s]

\* s comes before t in ascending price order: sorted() is stable, securities
\* of one price keep the order in which the dict got their keys
PositionIn(order, s) == CHOOSE i \in DOMAIN order : order[i] = s

ComesBefore(s, t) ==
  \/ price[s] < price[t]
  \/ /\ price[s] = price[t]
     /\ PositionIn(lastCall.target.order, s) < PositionIn(lastCall.target.order, t)

\* C23: the greedy redistribution favours cheaper securities: of two target
\* securities, the one that comes first in ascending price order has got at
\* least as many shares beyond its floor quantity as the other, and no
\* security has got fewer shares than its floor quantity
C23_CheaperGetsNoFewerExtras ==
  TargetReturned =>
    /\ \A s \in Range(lastCall.target.order) : ExtraShares(s) >= 0
    /\ \A s, t \in Range(lastCall.target.order) :
         ComesBefore(s, t) => ExtraShares(s) >= ExtraShares(t)

\* the loop has given a dearer security a share and a cheaper one more than
\* that
C23_Witness ==
  /\ TargetReturned
  /\ \E s, t \in Range(lastCall.target.order) :
       /\ price[s] < price[t]
       /\ ExtraShares(t) >= 1
       /\ ExtraShares(s) > ExtraShares(t)

\* the percentages of the allocation list are as a validated list has them:
\* none negative, the portfolio percentages summing to at most 100 and the
\* stock percentages of each portfolio allocation summing to at most 100
PercentagesWithinWhole(portfolio_allocations) ==
  /\ SumPercentage(portfolio_allocations) <= 100
  /\ \A i \in DOMAIN portfolio_allocations :
       LET alloc == portfolio_allocations[i]
           total == SumPct(alloc.stock_allocations)
       IN /\ alloc.percentage >= 0
          /\ total[1] <= 100 * total[2]
          /\ \A k \in DOMAIN alloc.stock_allocations : alloc.stock_allocations[k].pct[1] >= 0

\* C29: for funds F >= 0, positive prices and percentages within the whole,
\* no target quantity is negative and the targets cost at most F, after the
\* floor loop and after the greedy loop
C29_NeverAllocatesMoreThanFunds ==
  (/\ TargetReturned
   /\ lastCall.funds >= 0
   /\ \A s \in DOMAIN price : price[s] > 0
   /\ PercentagesWithinWhole(strategies[1].portfolio_allocations)) =>
    /\ \A s \in Range(FloorsOfLastCall.order) : FloorsOfLastCall.quantity[s] >= 0
    /\ TargetSpent(FloorsOfLastCall.order, FloorsOfLastCall.quantity, price) <= lastCall.funds
    /\ \A s \in Range(lastCall.target.order) : lastCall.target.quantity[s] >= 0
    /\ TargetSpent(lastCall.target.order, lastCall.target.quantity, price) <= lastCall.funds

\* the floors left cash over and the greedy loop has spent the funds to the
\* last unit
C29_Witness ==
  /\ TargetReturned
  /\ lastCall.funds > 0
  /\ PercentagesWithinWhole(strategies[1].portfolio_allocations)
  /\ TargetSpent(FloorsOfLastCall.order, FloorsOfLastCall.quantity, price) < lastCall.funds
  /\ TargetSpent(lastCall.target.order, lastCall.target.quantity, price) = lastCall.funds

\* ------------------------------------------------------------------------
\* Specification of the engine over a stocks table as an import leaves it: a
\* security that was never imported has no row, and a row whose price was
\* never fetched holds the column default 0.0; the feed can report 0 as well
\* ------------------------------------------------------------------------
StockTables ==
  UNION {{t \in [D -> {0, 40, 100, 300}] : \A s \in D : t[s] \in {0, InitialPrice[s]}} :
           D \in SUBSET Stocks}

\* funds a client posts here: with rows missing, most of the funds stay for
\* the greedy loop, one pass per share of the cheapest security
FeedFundsChoices == {1000, 2000}

InitFeed ==
  /\ price \in StockTables
  /\ portfolio_stocks = InitialPortfolioStocks
  /\ strategies = <<>>
  /\ holdings = {}
  /\ next_holding_id = 1
  /\ history = <<>>
  /\ clock = 1
  /\ edits = 0
  /\ lastCall = Call("none", 0, 0, "ok")
  /\ preExecute = NoSnapshot
  /\ session = NoSession
  /\ requests = NoRequests
  /\ serial = NoSerial
  /\ steps = 0
  /\ loop = NoLoop

NextFeed ==
  \/ \E id \in StrategyIds, f \in FeedFundsChoices, a \in AllocationChoices : CreateStrategy(id, f, a)
  \/ \E id \in StrategyIds : CalculateRebalancing(id)
  \/ \E s \in Stocks : \E v \in PriceChoices[s] \cup {0} : PriceFeed(s, v)

SpecFeed == InitFeed /\ [][NextFeed]_vars

\* the securities that the calculator visits for the strategy of the last call
\* (listed under an existing portfolio, with a row in the stocks table)
VisitedStocks ==
  {e.stock_id : e \in Range(AllocationEntries(
                   strategies[lastCall.strategy_id].portfolio_allocations,
                   DOMAIN portfolio_stocks, price))}

\* C12: when a security the calculator visits has a price <= 0, the
\* calculation fails with InvalidPrice and returns no target allocation
C12_InvalidPriceRejected ==
  (lastCall.op = "calculate" /\ \E s \in VisitedStocks : price[s] <= 0) =>
    /\ lastCall.status = "InvalidPrice"
    /\ lastCall.target.order = <<>>

\* the securities that the allocations of the last call's strategy list and
\* that have no row in the stocks table
UnpricedStocks ==
  ListedStocks(strategies[lastCall.strategy_id].portfolio_allocations) \ DOMAIN price

\* the securities a RebalancingCalculation names: its fields are strategy_id,
\* current_value, target_value and actions
SurfacedStocks == ActionStocks(lastCall.actions)

\* C17: when a listed security has no price record and the other listed
\* securities have positive prices, the calculation returns, the target
\* allocations hold exactly the other listed securities, and the result that
\* the caller gets names the omitted security
C17_MissingPriceSurfaced ==
  (/\ lastCall.op = "calculate"
   /\ UnpricedStocks # {}
   /\ VisitedStocks # {}
   /\ \A s \in VisitedStocks : price[s] > 0) =>
    /\ lastCall.status = "ok"
    /\ Range(lastCall.target.order) = VisitedStocks
    /\ \A s \in UnpricedStocks : s \in SurfacedStocks

\* the part of C17 that is about the quantization alone
MissingPriceSkipped ==
  (/\ lastCall.op = "calculate"
   /\ UnpricedStocks # {}
   /\ \A s \in VisitedStocks : price[s] > 0) =>
    /\ lastCall.status = "ok"
    /\ Range(lastCall.target.order) = VisitedStocks

\* ------------------------------------------------------------------------
\* Specification of the action generator alone: the initial state draws a
\* strategy with its positions and cash as earlier trades left them, the only
\* step is calculate_rebalancing
\* ------------------------------------------------------------------------
GenAllocationChoices ==
  AllocationChoices \cup
  { << [portfolio_id |-> 1, percentage |-> 100,
        stock_allocations |-> << [stock_id |-> 1, pct |-> Whole(100)] >>] >> }

GenQuantityChoices == {0, 3, 100}

GenCashChoices == {0, 100, 2400}

\* one row per security held, bought at 90
GenHoldings(quantity) ==
  {Holding(s, 1, 1, s, quantity[s], Whole(90), quantity[s] * 90) :
     s \in {x \in Stocks : quantity[x] > 0}}

InitGen ==
  /\ price \in PriceCombinations
  /\ portfolio_stocks = InitialPortfolioStocks
  /\ \E a \in GenAllocationChoices, cash \in GenCashChoices :
       strategies = (1 :> [total_funds |-> 10000, remaining_cash |-> cash,
                           portfolio_allocations |-> a])
  /\ \E quantity \in [Stocks -> GenQuantityChoices] : holdings = GenHoldings(quantity)
  /\ next_holding_id = 4
  /\ history = <<>>
  /\ clock = 1
  /\ edits = 0
  /\ lastCall = Call("none", 0, 0, "ok")
  /\ preExecute = NoSnapshot
  /\ session = NoSession
  /\ requests = NoRequests
  /\ serial = NoSerial
  /\ steps = 0
  /\ loop = NoLoop

NextGen == \E id \in StrategyIds : CalculateRebalancing(id)

SpecGen == InitGen /\ [][NextGen]_vars

\* the buys of security s among the candidate actions of the last call
CandidateBuys(s) ==
  {i \in DOMAIN lastCall.candidates :
     lastCall.candidates[i].action = "buy" /\ lastCall.candidates[i].stock_id = s}

\* Scenario B: 100 shares held at an average cost of 90, target 120 at price 120
ScenarioB ==
  /\ price[1] = 120
  /\ HoldingsFor(holdings, 1, 1) = {Holding(1, 1, 1, 1, 100, Whole(90), 9000)}
  /\ 1 \in Range(lastCall.target.order)
  /\ lastCall.target.quantity[1] = 120

\* C16: for every target security whose target quantity exceeds the quantity
\* held over all rows of the strategy, the candidate actions hold a buy of
\* exactly the difference at the current price iff the strategy is in
\* cash-utilization mode or the difference is at least 5 shares worth at least
\* 500; 100 held with a target of 120 at price 120 gives one buy of 20 worth 2400
C16_BuyRule ==
  (lastCall.op = "calculate" /\ lastCall.status = "ok") =>
    /\ \A s \in Range(lastCall.target.order) :
         LET diff == lastCall.target.quantity[s]
                       - CurrentQuantity(holdings, lastCall.strategy_id, s)
         IN diff > 0 =>
              /\ Cardinality(CandidateBuys(s)) <= 1
              /\ \A i \in CandidateBuys(s) :
                   lastCall.candidates[i] = Action("buy", s, diff, price[s])
              /\ CandidateBuys(s) # {} <=>
                   (CashUtilization \/ (diff >= 5 /\ diff * price[s] >= 500))
    /\ ScenarioB =>
         /\ Cardinality(CandidateBuys(1)) = 1
         /\ \A i \in CandidateBuys(1) :
              /\ lastCall.candidates[i].quantity = 20
              /\ TotalAmount(lastCall.candidates[i]) = 2400

\* the generator has emitted the buy of Scenario B
C16_Witness ==
  /\ lastCall.op = "calculate"
  /\ ScenarioB
  /\ \E i \in CandidateBuys(1) : lastCall.candidates[i] = Action("buy", 1, 20, 120)

\* C9: a calculation that directly follows a calculation of the same
\* strategy returns the same set of actions; when the set is not empty the
\* two calls leave two separate Pending records; get_pending_rebalancing
\* returns the actions of the most recently created Pending record
C9_RepeatedCalculation ==
  /\ [][(/\ lastCall.op = "calculate"
         /\ lastCall'.op = "calculate"
         /\ lastCall'.strategy_id = lastCall.strategy_id) =>
          /\ Range(lastCall'.actions) = Range(lastCall.actions)
          /\ lastCall'.actions # <<>> =>
               /\ Len(history) >= 1
               /\ Len(history') = Len(history) + 1
               /\ history'[Len(history)] = history[Len(history)]
               /\ history[Len(history)].actions = lastCall.actions
               /\ ~history'[Len(history)].executed
               /\ history'[Len(history')].actions = lastCall'.actions
               /\ ~history'[Len(history')].executed]_vars
  /\ [](lastCall.op = "pending" =>
          lastCall.actions =
            IF PendingOf(history, lastCall.strategy_id) = {} THEN <<>>
            ELSE history[Latest(PendingOf(history, lastCall.strategy_id))].actions)

\* get_pending_rebalancing has returned the actions of the later of two
\* Pending records that hold the same set of actions
C9_Witness ==
  /\ lastCall.op = "pending"
  /\ Len(history) = 2
  /\ ~history[1].executed /\ ~history[2].executed
  /\ history[1].strategy_id = history[2].strategy_id
  /\ Range(history[1].actions) = Range(history[2].actions)
  /\ history[2].created_at = history[1].created_at + 1
  /\ lastCall.actions = history[2].actions

\* ------------------------------------------------------------------------
\* Specification of execute and undo as the steps of one database session:
\* the handler loads the record, applies the actions one by one inside its
\* transaction, and commits once; other requests run between its steps and
\* read the committed rows. One execute or undo request is in flight at a time
\* ------------------------------------------------------------------------

\* the record the open session works on
SessionActions == history[session.rebalancing_id].actions

\* execute_rebalancing up to the start of its for loop
BeginExecute(strategy_id) ==
  /\ steps < MaxSteps
  /\ session.op = "none"
  /\ strategy_id \in DOMAIN strategies
  /\ LET rebalancing_id == LatestPending(history, strategy_id, Len(history))
     IN IF rebalancing_id = 0
        THEN /\ lastCall' = Call("execute", strategy_id, 0, "noop")
             /\ session' = session
        ELSE /\ lastCall' = Call("execute", strategy_id, rebalancing_id, "running")
             /\ session' = [op |-> "execute", strategy_id |-> strategy_id,
                            rebalancing_id |-> rebalancing_id, i |-> 1, st |-> SessionStart]
  /\ UNCHANGED <<price, portfolio_stocks, strategies, holdings, next_holding_id, history,
                 clock, edits, preExecute, requests, serial>>
  /\ steps' = steps + 1
  /\ UNCHANGED loop

\* the undo route and undo_rebalancing up to the start of its for loop
BeginUndo(strategy_id, rebalancing_id) ==
  /\ steps < MaxSteps
  /\ session.op = "none"
  /\ strategy_id \in DOMAIN strategies
  /\ IF rebalancing_id \notin DOMAIN history
        \/ history[rebalancing_id].strategy_id # strategy_id
     THEN /\ lastCall' = Call("undo", strategy_id, rebalancing_id, "NotFound")
          /\ session' = session
     ELSE IF UndoError(history, rebalancing_id) # ""
     THEN /\ lastCall' = Call("undo", strategy_id, rebalancing_id,
                              UndoError(history, rebalancing_id))
          /\ session' = session
     ELSE /\ lastCall' = Call("undo", strategy_id, rebalancing_id, "running")
          /\ session' = [op |-> "undo", strategy_id |-> strategy_id,
                         rebalancing_id |-> rebalancing_id, i |-> 1, st |-> SessionStart]
  /\ UNCHANGED <<price, portfolio_stocks, strategies, holdings, next_holding_id, history,
                 clock, edits, preExecute, requests, serial>>
  /\ steps' = steps + 1
  /\ UNCHANGED loop

\* one iteration of the for loop over rebalancing.actions: the changes stay in
\* the session's transaction
ApplyAction ==
  /\ session.op # "none"
  /\ ~session.st.failed
  /\ session.i <= Len(SessionActions)
  /\ LET a == SessionActions[session.i]
         id == history[session.rebalancing_id].strategy_id
     IN \E h \in FirstHoldingChoices(session.st.rows, id, a.stock_id) :
          session' = [session EXCEPT
                        !.i = @ + 1,
                        !.st = IF session.op = "execute"
                               THEN ExecuteAction(session.st, id, a, h)
                               ELSE UndoAction(session.st, id, a, h)]
  /\ lastCall' = Call(session.op, session.strategy_id, session.rebalancing_id, "running")
  /\ UNCHANGED <<price, portfolio_stocks, strategies, holdings, next_holding_id, history,
                 clock, edits, preExecute, requests, serial>>
  /\ UNCHANGED <<steps, loop>>

\* a commit after the first action already
CommitPoint_InsideLoop(i, actions) == i > 1

\* await db.commit() is the last statement, after the loop has run over
\* every action
CommitPoint(i, actions) == i > Len(actions)

\* strategy.remaining_cash += net_cash_change; the flag; await db.commit()
Commit ==
  /\ session.op # "none"
  /\ ~session.st.failed
  /\ CommitPoint(session.i, SessionActions)
  /\ holdings' = session.st.rows
  /\ next_holding_id' = session.st.next_id
  /\ strategies' = [strategies EXCEPT
                      ![history[session.rebalancing_id].strategy_id].remaining_cash =
                        @ + (session.st.cash_from_sales - session.st.cash_for_purchases)]
  /\ IF session.op = "execute"
     THEN /\ history' = [history EXCEPT ![session.rebalancing_id].executed = TRUE]
          /\ clock' = clock
     ELSE /\ history' = [history EXCEPT ![session.rebalancing_id].undone = TRUE,
                                        ![session.rebalancing_id].undone_at = clock]
          /\ clock' = clock + 1
  /\ lastCall' = Call(session.op, session.strategy_id, session.rebalancing_id, "ok")
  /\ session' = NoSession
  /\ UNCHANGED <<price, portfolio_stocks, edits, preExecute, requests, serial>>
  /\ UNCHANGED <<steps, loop>>

\* an exception leaves the handler (the UnboundLocalError of undo, or an error
\* of the database on any statement): the request's session is closed without
\* a commit and its transaction is rolled back
Fail ==
  /\ session.op # "none"
  /\ lastCall' = Call(session.op, session.strategy_id, session.rebalancing_id, "ServerError")
  /\ session' = NoSession
  /\ UNCHANGED <<price, portfolio_stocks, strategies, holdings, next_holding_id, history,
                 clock, edits, preExecute, requests, serial>>
  /\ UNCHANGED <<steps, loop>>

NextTxn ==
  \/ \E id \in StrategyIds, f \in FundsChoices, a \in AllocationChoices : CreateStrategy(id, f, a)
  \/ \E id \in StrategyIds : CalculateRebalancing(id)
  \/ \E id \in StrategyIds : GetPendingRebalancing(id)
  \/ \E p \in Portfolios : \E m \in PortfolioEditChoices[p] : UpdatePortfolio(p, m)
  \/ \E s \in Stocks : \E v \in PriceChoices[s] : PriceFeed(s, v)
  \/ \E id \in StrategyIds : BeginExecute(id)
  \/ \E id \in StrategyIds, r \in 1..MaxRecords : BeginUndo(id, r)
  \/ ApplyAction
  \/ Commit
  \/ Fail

SpecTxn == Init /\ [][NextTxn]_vars

\* what other requests can read of positions, cash and record flags
RemainingCash == [id \in DOMAIN strategies |-> strategies[id].remaining_cash]

Flags(r) == <<history[r].executed, history[r].undone, history[r].undone_at>>

\* the step changes no holding row, no cash and no flag of an existing record
NothingVisible ==
  /\ holdings' = holdings
  /\ RemainingCash' = RemainingCash
  /\ \A r \in DOMAIN history : Flags(r)' = Flags(r)

\* the step makes visible everything execute (undo) does with the record of
\* the open session, from the committed rows, in one piece
WholeEffectVisible ==
  LET r == session.rebalancing_id
      id == history[r].strategy_id
      start == [rows |-> holdings, next_id |-> next_holding_id,
                cash_from_sales |-> 0, cash_for_purchases |-> 0, failed |-> FALSE]
      outcomes == IF session.op = "execute"
                  THEN ExecuteOutcomes(history[r].actions, id, start)
                  ELSE UndoOutcomes(history[r].actions, id, start)
  IN /\ \E st \in outcomes :
          /\ ~st.failed
          /\ holdings' = st.rows
          /\ strategies'[id].remaining_cash = strategies[id].remaining_cash
               + st.cash_from_sales - st.cash_for_purchases
     /\ IF session.op = "execute"
        THEN history' = [history EXCEPT ![r].executed = TRUE]
        ELSE history' = [history EXCEPT ![r].undone = TRUE, ![r].undone_at = clock]

\* C5: execute and undo are all-or-nothing: while the request is running no
\* holding row, cash or flag changes for anyone else; when it returns, either
\* all its mutations, its cash change and its flag became visible in that one
\* step, or it failed and holdings, cash and flags are as before the call
C5_AllOrNothing ==
  [][/\ session'.op # "none" => (session.op = "none" \/ NothingVisible)
     /\ (session.op = "none" /\ lastCall'.op \in {"execute", "undo"}) => NothingVisible
     /\ (session.op # "none" /\ session'.op = "none") =>
          IF lastCall'.status = "ok"
          THEN WholeEffectVisible
          ELSE NothingVisible /\ history' = history]_vars

\* another request has run while the open session had applied part of a
\* record of several actions in its transaction
C5_Witness ==
  /\ session.op \in {"execute", "undo"}
  /\ session.i > 1
  /\ session.i <= Len(SessionActions)
  /\ session.st.rows # holdings
  /\ lastCall.op \in {"calculate", "pending"}
  /\ lastCall.strategy_id = session.strategy_id


\* ------------------------------------------------------------------------
\* Specification of execute and undo as concurrent requests. FastAPI runs the
\* async handlers of two requests on one event loop, each with its own
\* AsyncSession; neither handler takes a lock or uses SELECT ... FOR UPDATE.
\* A request reads the record, the strategy and the holding rows and runs its
\* loop on the objects it loaded (one step), and later flushes and commits
\* (another step). The database applies the statements of a flush to the rows
\* committed by then. Other handlers run while no such request is open
\* ------------------------------------------------------------------------
OpenRequests == {w \in Requests : requests[w].op # "none"}

\* ids of the rows a request updated or deleted
TouchedIds(q) == {h.id : h \in q.read_rows \ q.st.rows}

\* the rows a request changed, the rows it deleted and the rows it added
DirtyIds(q) == {h.id : h \in {x \in q.st.rows : x.id < q.next_id} \ q.read_rows}

DeletedIds(q) == {h.id : h \in q.read_rows} \ {h.id : h \in q.st.rows}

AddedRows(q) == {h \in q.st.rows : h.id >= q.next_id}

\* the session flushes before every query: the UPDATE and DELETE statements of
\* all actions but the last reach the database inside the loop and keep their
\* row locks until the commit, so a request whose loop has to write a row that
\* an open request has written waits for that commit. The model leaves the
\* interleavings with a waiting request out
WaitsForLock(q) ==
  \E o \in OpenRequests :
     /\ Len(history[q.rebalancing_id].actions) > 1
     /\ Len(history[requests[o].rebalancing_id].actions) > 1
     /\ TouchedIds(q) \cap TouchedIds(requests[o]) # {}

\* the model follows two overlapping requests at a time: a request starts
\* when none is open, or next to one that has had no company yet
CanStart(w) ==
  /\ requests[w].op = "none"
  /\ \A o \in OpenRequests : ~requests[o].raced

\* the request as the handler leaves its loop: what it read and what it made
\* of it
LoadedRequest(op, strategy_id, rebalancing_id, st) ==
  [op |-> op, strategy_id |-> strategy_id, rebalancing_id |-> rebalancing_id,
   cash_read |-> strategies[strategy_id].remaining_cash,
   read_rows |-> holdings, next_id |-> next_holding_id, st |-> st,
   raced |-> OpenRequests # {}]

\* request w joins the open ones; an open request learns that it has company
Join(w, q) ==
  [o \in Requests |-> IF o = w THEN q
                      ELSE [requests[o] EXCEPT !.raced = @ \/ requests[o].op # "none"]]

\* the two requests as calls, for running them one after the other
AsCall(q) == [op |-> q.op, strategy_id |-> q.strategy_id, rebalancing_id |-> q.rebalancing_id]

\* the committed database as a value
Database ==
  [holdings |-> holdings, next_id |-> next_holding_id, history |-> history,
   cash |-> [id \in DOMAIN strategies |-> strategies[id].remaining_cash]]

\* execute_rebalancing as a function of the database it starts from
SerialExecute(db, strategy_id) ==
  LET rebalancing_id == LatestPending(db.history, strategy_id, Len(db.history))
  IN IF rebalancing_id = 0 THEN {db}
     ELSE {[holdings |-> st.rows, next_id |-> st.next_id,
            history |-> [db.history EXCEPT ![rebalancing_id].executed = TRUE],
            cash |-> [db.cash EXCEPT ![strategy_id] =
                        @ + (st.cash_from_sales - st.cash_for_purchases)]] :
           st \in ExecuteOutcomes(db.history[rebalancing_id].actions, strategy_id,
                                  [rows |-> db.holdings, next_id |-> db.next_id,
                                   cash_from_sales |-> 0, cash_for_purchases |-> 0,
                                   failed |-> FALSE])}

\* undo_rebalancing as a function of the database it starts from
SerialUndo(db, strategy_id, rebalancing_id) ==
  IF UndoError(db.history, rebalancing_id) # "" THEN {db}
  ELSE {IF st.failed THEN db
        ELSE [holdings |-> st.rows, next_id |-> st.next_id,
              history |-> [db.history EXCEPT ![rebalancing_id].undone = TRUE],
              cash |-> [db.cash EXCEPT ![strategy_id] =
                          @ + (st.cash_from_sales - st.cash_for_purchases)]] :
        st \in UndoOutcomes(db.history[rebalancing_id].actions, strategy_id,
                            [rows |-> db.holdings, next_id |-> db.next_id,
                             cash_from_sales |-> 0, cash_for_purchases |-> 0,
                             failed |-> FALSE])}

SerialCall(db, c) ==
  IF c.op = "execute" THEN SerialExecute(db, c.strategy_id)
  ELSE SerialUndo(db, c.strategy_id, c.rebalancing_id)

\* what a client sees of a strategy: its cash and, per security, the shares
\* its rows hold and the number of rows
Visible(db, strategy_id) ==
  [remaining_cash |-> db.cash[strategy_id],
   quantity |-> [s \in Stocks |-> CurrentQuantity(db.holdings, strategy_id, s)],
   rows |-> [s \in Stocks |-> Cardinality(HoldingsFor(db.holdings, strategy_id, s))]]

\* everything the two calls can leave when one runs after the other has
\* returned, in either order
SerialOutcomes(db, a, b) ==
  {Visible(d2, a.strategy_id) :
     d2 \in UNION ({SerialCall(d1, b) : d1 \in SerialCall(db, a)}
                   \cup {SerialCall(d1, a) : d1 \in SerialCall(db, b)})}

\* the comparison starts when a request joins an open one
Compare(q) ==
  IF OpenRequests = {} THEN NoSerial
  ELSE [outcomes |-> SerialOutcomes(Database, AsCall(requests[CHOOSE o \in OpenRequests : TRUE]),
                                    AsCall(q)),
        commits |-> 0]

\* execute_rebalancing up to its commit: the reads and the loop
RaceExecute(w, strategy_id) ==
  /\ steps < MaxSteps
  /\ CanStart(w)
  /\ strategy_id \in DOMAIN strategies
  /\ LET rebalancing_id == LatestPending(history, strategy_id, Len(history))
     IN IF rebalancing_id = 0
        THEN /\ lastCall' = Call("execute", strategy_id, 0, "noop")
             /\ UNCHANGED <<requests, serial>>
        ELSE /\ lastCall' = Call("execute", strategy_id, rebalancing_id, "running")
             /\ \E st \in ExecuteOutcomes(history[rebalancing_id].actions, strategy_id,
                                          SessionStart) :
                  LET q == LoadedRequest("execute", strategy_id, rebalancing_id, st)
                  IN /\ ~WaitsForLock(q)
                     /\ requests' = Join(w, q)
                     /\ serial' = Compare(q)
  /\ UNCHANGED <<price, portfolio_stocks, strategies, holdings, next_holding_id, history,
                 clock, edits, preExecute, session>>
  /\ steps' = steps + 1
  /\ UNCHANGED loop

\* the undo route and undo_rebalancing up to its commit
RaceUndo(w, strategy_id, rebalancing_id) ==
  /\ steps < MaxSteps
  /\ CanStart(w)
  /\ strategy_id \in DOMAIN strategies
  /\ IF rebalancing_id \notin DOMAIN history
        \/ history[rebalancing_id].strategy_id # strategy_id
     THEN /\ lastCall' = Call("undo", strategy_id, rebalancing_id, "NotFound")
          /\ UNCHANGED <<requests, serial>>
     ELSE IF UndoError(history, rebalancing_id) # ""
     THEN /\ lastCall' = Call("undo", strategy_id, rebalancing_id,
                              UndoError(history, rebalancing_id))
          /\ UNCHANGED <<requests, serial>>
     ELSE \E st \in UndoOutcomes(history[rebalancing_id].actions, strategy_id, SessionStart) :
            IF st.failed
            THEN /\ lastCall' = Call("undo", strategy_id, rebalancing_id, "ServerError")
                 /\ UNCHANGED <<requests, serial>>
            ELSE LET q == LoadedRequest("undo", strategy_id, rebalancing_id, st)
                 IN /\ ~WaitsForLock(q)
                    /\ lastCall' = Call("undo", strategy_id, rebalancing_id, "running")
                    /\ requests' = Join(w, q)
                    /\ serial' = Compare(q)
  /\ UNCHANGED <<price, portfolio_stocks, strategies, holdings, next_holding_id, history,
                 clock, edits, preExecute, session>>
  /\ steps' = steps + 1
  /\ UNCHANGED loop

\* the row with a given primary key
RowById(rows, id) == CHOOSE h \in rows : h.id = id

\* the UPDATE of a row the session changed sets the columns whose value the
\* session changed, on the row as it is committed by then
MergeRow(committed, read, mine) ==
  [committed EXCEPT
     !.quantity = IF mine.quantity # read.quantity THEN mine.quantity ELSE @,
     !.average_price = IF mine.average_price # read.average_price
                       THEN mine.average_price ELSE @,
     !.current_value = IF mine.current_value # read.current_value
                       THEN mine.current_value ELSE @]

\* the holdings table after the flush of request q: its DELETE, UPDATE and
\* INSERT statements on the committed rows; the sequence numbers the new rows
\* from first_id on
FlushRows(committed, q, first_id) ==
  {IF c.id \in DirtyIds(q)
   THEN MergeRow(c, RowById(q.read_rows, c.id), RowById(q.st.rows, c.id))
   ELSE c : c \in {x \in committed : x.id \notin DeletedIds(q)}}
  \cup {[h EXCEPT !.id = first_id + (h.id - q.next_id)] : h \in AddedRows(q)}

\* an UPDATE of a row that is no longer there matches no row: the ORM raises
\* StaleDataError and the transaction is rolled back
StaleData(committed, q) == \E id \in DirtyIds(q) : id \notin {c.id : c \in committed}

\* remaining_cash written by a commit that finds the database adding the net
\* change to the committed value
RemainingCashWritten_AddedInDatabase(cash_read, committed, net) == committed + net

\* strategy.remaining_cash += net_cash_change on the Strategy object the
\* handler loaded at its start: the UPDATE sets the value the handler read
\* plus its net change; an unchanged attribute is not written
RemainingCashWritten(cash_read, committed, net) ==
  IF net = 0 THEN committed ELSE cash_read + net

\* the net cash change a request computed
NetCashChange(q) == q.st.cash_from_sales - q.st.cash_for_purchases

\* rebalancing.executed = True (or undone = True) and await db.commit()
RaceCommit(w) ==
  /\ requests[w].op # "none"
  /\ LET q == requests[w]
     IN IF StaleData(holdings, q)
        THEN /\ lastCall' = Call(q.op, q.strategy_id, q.rebalancing_id, "StaleDataError")
             /\ UNCHANGED <<holdings, next_holding_id, strategies, history, clock, serial>>
        ELSE /\ holdings' = FlushRows(holdings, q, next_holding_id)
             /\ next_holding_id' = next_holding_id + Cardinality(AddedRows(q))
             /\ strategies' = [strategies EXCEPT ![q.strategy_id].remaining_cash =
                                 RemainingCashWritten(q.cash_read, @, NetCashChange(q))]
             /\ IF q.op = "execute"
                THEN /\ history' = [history EXCEPT ![q.rebalancing_id].executed = TRUE]
                     /\ clock' = clock
                ELSE /\ history' = [history EXCEPT ![q.rebalancing_id].undone = TRUE,
                                                   ![q.rebalancing_id].undone_at = clock]
                     /\ clock' = clock + 1
             /\ lastCall' = Call(q.op, q.strategy_id, q.rebalancing_id, "ok")
             /\ serial' = IF q.raced THEN [serial EXCEPT !.commits = @ + 1] ELSE serial
  /\ requests' = [requests EXCEPT ![w] = NoRequest]
  /\ UNCHANGED <<price, portfolio_stocks, edits, preExecute, session>>
  /\ UNCHANGED <<steps, loop>>

\* the handlers that run while no execute or undo request is open
Alone(A) == OpenRequests = {} /\ A

NextRace ==
  \/ Alone(\E id \in StrategyIds, f \in FundsChoices, a \in AllocationChoices :
             CreateStrategy(id, f, a))
  \/ Alone(\E id \in StrategyIds : CalculateRebalancing(id))
  \/ Alone(\E s \in Stocks : \E v \in PriceChoices[s] : PriceFeed(s, v))
  \/ \E w \in Requests, id \in StrategyIds : RaceExecute(w, id)
  \/ \E w \in Requests, id \in StrategyIds, r \in 1..MaxRecords : RaceUndo(w, id, r)
  \/ \E w \in Requests : RaceCommit(w)

SpecRace == Init /\ [][NextRace]_vars

PairIds == {1, 2}

PairFundsChoices == {2000}

NextPair ==
  \/ \E id \in PairIds, f \in PairFundsChoices, a \in AllocationChoices : CreateStrategy(id, f, a)
  \/ \E id \in PairIds : CalculateRebalancing(id)
  \/ \E id \in PairIds : ExecuteRebalancing(id)
  \/ \E id \in PairIds, r \in 1..MaxRecords : UndoRebalancing(id, r)
  \/ \E s \in Stocks : \E v \in PriceChoices[s] : PriceFeed(s, v)

SpecPair == Init /\ [][NextPair]_vars

\* the rows of a strategy, and the records of a strategy with their ids
RowsOf(rows, strategy_id) == {h \in rows : h.strategy_id = strategy_id}

RecordsOf(records, strategy_id) ==
  {<<i, records[i]>> : i \in {j \in DOMAIN records : records[j].strategy_id = strategy_id}}

\* C19: a calculate, execute or undo call for strategy S leaves the holding
\* rows, remaining_cash, allocations and rebalancing records of every other
\* strategy as they were, also when both hold the same security
C19_OtherStrategiesUntouched ==
  [][lastCall'.op \in {"calculate", "execute", "undo"}
     => \A other \in DOMAIN strategies \ {lastCall'.strategy_id} :
          /\ other \in DOMAIN strategies'
          /\ strategies'[other] = strategies[other]
          /\ RowsOf(holdings', other) = RowsOf(holdings, other)
          /\ RecordsOf(history', other) = RecordsOf(history, other)]_vars

\* strategy 1 has executed a record that changed its row of a security that
\* strategy 2 holds as well
C19_Witness ==
  /\ DOMAIN strategies = PairIds
  /\ lastCall.op = "execute" /\ lastCall.status = "ok" /\ lastCall.strategy_id = 1
  /\ preExecute.rebalancing_id # 0
  /\ \E s \in Stocks :
       /\ CurrentQuantity(holdings, 2, s) > 0
       /\ CurrentQuantity(holdings, 1, s) > 0
       /\ CurrentQuantity(holdings, 1, s) # CurrentQuantity(preExecute.holdings, 1, s)

\* ------------------------------------------------------------------------
\* Specification of the whole interface of the engine: the handlers of Spec
\* and the history query, one at a time
\* ------------------------------------------------------------------------
NextFrame ==
  \/ Next
  \/ \E id \in StrategyIds : GetRebalancingHistory(id)

SpecFrame == Init /\ [][NextFrame]_vars

\* remaining_cash of every strategy
CashOf(all) == [id \in DOMAIN all |-> all[id].remaining_cash]

PropAllocationChoices ==
  AllocationChoices \cup
  { << [portfolio_id |-> 1, percentage |-> 60,
        stock_allocations |-> << [stock_id |-> 1, pct |-> Whole(50)],
                                 [stock_id |-> 2, pct |-> Whole(50)] >>],
       [portfolio_id |-> 2, percentage |-> 40,
        stock_allocations |-> << [stock_id |-> 1, pct |-> Whole(75)],
                                 [stock_id |-> 3, pct |-> Whole(25)] >>] >> }

NextProp ==
  \/ \E id \in StrategyIds, f \in FeedFundsChoices, a \in PropAllocationChoices :
       CreateStrategy(id, f, a)
  \/ \E p \in Portfolios : \E m \in PortfolioEditChoices[p] : UpdatePortfolio(p, m)
  \/ \E s \in Stocks : \E v \in PriceChoices[s] : PriceFeed(s, v)

SpecProp == Init /\ [][NextProp]_vars

\* the stock_allocations of the first allocation of a portfolio in a strategy
FirstAllocation(strategy, portfolio_id) ==
  LET i == CHOOSE j \in DOMAIN strategy.portfolio_allocations :
             /\ strategy.portfolio_allocations[j].portfolio_id = portfolio_id
             /\ \A k \in 1..(j - 1) :
                  strategy.portfolio_allocations[k].portfolio_id # portfolio_id
  IN strategy.portfolio_allocations[i].stock_allocations

KeysOf(stock_allocations) == {stock_allocations[i].stock_id : i \in DOMAIN stock_allocations}

PctOf(stock_allocations, stock_id) ==
  LET i == CHOOSE j \in DOMAIN stock_allocations : stock_allocations[j].stock_id = stock_id
  IN stock_allocations[i].pct

\* pct * r / (r + a)
ScaledPct(pct, r, a) == Frac(pct[1] * r, pct[2] * (r + a))

\* what the propagation of one portfolio edit did to the allocation of the
\* edited portfolio in every strategy that references it; scaled is the set
\* of remaining securities whose percentage is to be the scaled one
PropagationRule(only_not_added) ==
  \A p \in DOMAIN portfolio_stocks :
    portfolio_stocks'[p] # portfolio_stocks[p] =>
      \A id \in AffectedStrategies(strategies, p) :
        LET old == FirstAllocation(strategies[id], p)
            new == FirstAllocation(strategies'[id], p)
            removed == portfolio_stocks[p] \ portfolio_stocks'[p]
            added == portfolio_stocks'[p] \ portfolio_stocks[p]
            kept == KeysOf(old) \ removed
            r == Cardinality(kept)
            a == Cardinality(added)
            scaled == IF only_not_added THEN kept \ added ELSE kept
        IN /\ KeysOf(new) \cap removed = {}
           /\ kept \subseteq KeysOf(new)
           /\ (r > 0 /\ a > 0) =>
                /\ \A s \in scaled : PctOf(new, s) = ScaledPct(PctOf(old, s), r, a)
                /\ \A s \in added : s \in KeysOf(new) /\ PctOf(new, s) = Frac(100, r + a)
           /\ (r = 0 /\ a > 0) =>
                \A s \in added : s \in KeysOf(new) /\ PctOf(new, s) = Frac(100, a)

\* C21 as stated: after a portfolio edit every removed security is gone from
\* stock_allocations; with r > 0 entries remaining and a > 0 securities
\* added, every remaining percentage is the old one times r/(r+a) and every
\* added security has 100/(r+a); with no entry remaining every added
\* security has 100/a
C21_PropagationAsStated == [][PropagationRule(FALSE)]_vars

\* C21 amended: the same, where the remaining percentages that are scaled are
\* those of the securities that are not among the added ones; a remaining
\* entry of an added security is overwritten with 100/(r+a)
C21_Propagation == [][PropagationRule(TRUE)]_vars

\* portfolio 2 went from {1} to {1, 3}: the remaining 100 of security 1 was
\* halved and security 3 was given 50
C21_Witness ==
  /\ lastCall.op = "update_portfolio"
  /\ edits = 1
  /\ portfolio_stocks[2] = {1, 3}
  /\ 1 \in DOMAIN strategies
  /\ \E i \in DOMAIN strategies[1].portfolio_allocations :
       /\ strategies[1].portfolio_allocations[i].portfolio_id = 2
       /\ strategies[1].portfolio_allocations[i].stock_allocations =
            << [stock_id |-> 1, pct |-> Whole(50)], [stock_id |-> 3, pct |-> Whole(50)] >>

\* ------------------------------------------------------------------------
\* Specification of portfolio edits with two strategies of one user; the
\* price feed can report 0 for a security, the value its row is created with
\* ------------------------------------------------------------------------
NextEdit ==
  \/ \E id \in PairIds, f \in PairFundsChoices, a \in AllocationChoices : CreateStrategy(id, f, a)
  \/ \E p \in Portfolios : \E m \in PortfolioEditChoices[p] : UpdatePortfolio(p, m)
  \/ \E s \in Stocks : \E v \in PriceChoices[s] \cup {0} : PriceFeed(s, v)

SpecEdit == Init /\ [][NextEdit]_vars

\* the action lists of the records a step added for a strategy
NewActionsOf(strategy_id) ==
  {history'[i].actions :
     i \in {j \in DOMAIN history' \ DOMAIN history : history'[j].strategy_id = strategy_id}}

\* the step ran calculate_rebalancing for the strategy on the allocation the
\* strategy has after the step (a calculation that raised returns no action)
CalculatedAfterChange(strategy_id) ==
  \E held_order \in Orderings(LeavingStocks(strategies'[strategy_id], strategy_id, holdings,
                                            DOMAIN portfolio_stocks, price)) :
     LET c == Calculation(strategies'[strategy_id], strategy_id, holdings,
                          DOMAIN portfolio_stocks, price, held_order)
     IN NewActionsOf(strategy_id) = IF c.actions # <<>> THEN {c.actions} ELSE {}

\* C22: a portfolio edit that removes or adds a security rewrites the
\* allocation of every strategy that references the portfolio and then runs
\* the calculation for it on the rewritten allocation; the strategies that do
\* not reference the portfolio keep their allocations and get no record; an
\* edit that removes and adds nothing changes no strategy and adds no record
C22_PropagatesToReferencingStrategies ==
  [][\A p \in DOMAIN portfolio_stocks :
       /\ (portfolio_stocks'[p] # portfolio_stocks[p]) =>
            \A id \in DOMAIN strategies :
               IF id \in AffectedStrategies(strategies, p)
               THEN /\ strategies'[id].portfolio_allocations =
                         UpdateStrategyAllocations(strategies[id].portfolio_allocations, p,
                                                   portfolio_stocks[p] \ portfolio_stocks'[p],
                                                   portfolio_stocks'[p] \ portfolio_stocks[p])
                    /\ CalculatedAfterChange(id)
               ELSE /\ strategies'[id] = strategies[id]
                    /\ NewActionsOf(id) = {}
       /\ (edits' # edits /\ portfolio_stocks' = portfolio_stocks) =>
            strategies' = strategies /\ history' = history]_vars

\* the same while every price is positive
C22_WithPositivePrices ==
  [][(\A s \in DOMAIN price : price[s] > 0) =>
       \A p \in DOMAIN portfolio_stocks :
         (portfolio_stocks'[p] # portfolio_stocks[p]) =>
            \A id \in DOMAIN strategies :
               IF id \in AffectedStrategies(strategies, p)
               THEN /\ strategies'[id].portfolio_allocations =
                         UpdateStrategyAllocations(strategies[id].portfolio_allocations, p,
                                                   portfolio_stocks[p] \ portfolio_stocks'[p],
                                                   portfolio_stocks'[p] \ portfolio_stocks[p])
                    /\ CalculatedAfterChange(id)
               ELSE /\ strategies'[id] = strategies[id]
                    /\ NewActionsOf(id) = {}]_vars


\* ------------------------------------------------------------------------
\* Specification of a strategy that is created and then only rebalanced:
\* calculate, execute and undo one at a time, the price feed in between, no
\* portfolio edit
\* ------------------------------------------------------------------------
NextCash ==
  \/ \E id \in StrategyIds, f \in FundsChoices, a \in AllocationChoices : CreateStrategy(id, f, a)
  \/ \E id \in StrategyIds : CalculateRebalancing(id)
  \/ \E id \in StrategyIds : ExecuteRebalancing(id)
  \/ \E id \in StrategyIds, r \in 1..MaxRecords : UndoRebalancing(id, r)
  \/ \E s \in Stocks : \E v \in PriceChoices[s] : PriceFeed(s, v)

SpecCash == Init /\ [][NextCash]_vars

\* C27: remaining_cash of a strategy created with non-negative funds at
\* positive prices is never negative, whatever calculations, executions and
\* undos follow one after the other and however prices move in between
C27_RemainingCashNeverNegative ==
  \A id \in DOMAIN strategies : strategies[id].remaining_cash >= 0


\* ------------------------------------------------------------------------
\* Specification of the calculator with its while loop taken one pass at a
\* time: the initial state draws the funds, the allocation list and the
\* prices (all positive); a started call keeps running
\* ------------------------------------------------------------------------

\* funds the calculator is called with here: none, less than any price, and
\* amounts that leave the loop one pass or many
LoopFundsChoices == {0, 30, 250, 1200}

InitLoop ==
  /\ price \in PriceCombinations
  /\ portfolio_stocks = InitialPortfolioStocks
  /\ \E total_value \in LoopFundsChoices, a \in CalcAllocationChoices :
       /\ strategies = (1 :> [total_funds |-> total_value, remaining_cash |-> total_value,
                              portfolio_allocations |-> a])
       /\ lastCall = [Call("input", 1, 0, "ok") EXCEPT !.funds = total_value]
  /\ holdings = {}
  /\ next_holding_id = 1
  /\ history = <<>>
  /\ clock = 1
  /\ edits = 0
  /\ preExecute = NoSnapshot
  /\ session = NoSession
  /\ requests = NoRequests
  /\ serial = NoSerial
  /\ steps = 0
  /\ loop = NoLoop

\* the floor loop, the sum of what it spent and the sort, up to the while
EnterGreedyLoop ==
  /\ lastCall.op = "input"
  /\ loop.pc = "none"
  /\ LET entries == AllocationEntries(strategies[1].portfolio_allocations,
                                      DOMAIN portfolio_stocks, price)
         floors == FloorAllocations(entries, lastCall.funds, price, EmptyTarget)
         spent == TargetSpent(floors.order, floors.quantity, price)
     IN /\ ~RaisesZeroDivision(entries, price)
        /\ loop' = [pc |-> "while", sorted |-> SortByPrice(floors.order, price),
                    quantity |-> floors.quantity,
                    remaining_cash |-> lastCall.funds - spent]
  /\ UNCHANGED <<price, portfolio_stocks, strategies, holdings, next_holding_id, history,
                 clock, edits, lastCall, preExecute, session, requests, serial, steps>>

\* while remaining_cash > 0: one run of the for loop, then the test of
\* allocated_any
GreedyIteration ==
  /\ loop.pc = "while"
  /\ loop.remaining_cash > 0
  /\ LET st == GreedyPass(loop.sorted, price,
                 [quantity |-> loop.quantity, remaining_cash |-> loop.remaining_cash,
                  allocated_any |-> FALSE])
     IN loop' = [loop EXCEPT !.quantity = st.quantity,
                             !.remaining_cash = st.remaining_cash,
                             !.pc = IF st.allocated_any THEN "while" ELSE "return"]
  /\ UNCHANGED <<price, portfolio_stocks, strategies, holdings, next_holding_id, history,
                 clock, edits, lastCall, preExecute, session, requests, serial, steps>>

\* the while condition is false: the loop is left
GreedyExit ==
  /\ loop.pc = "while"
  /\ ~(loop.remaining_cash > 0)
  /\ loop' = [loop EXCEPT !.pc = "return"]
  /\ UNCHANGED <<price, portfolio_stocks, strategies, holdings, next_holding_id, history,
                 clock, edits, lastCall, preExecute, session, requests, serial, steps>>

\* return target_allocations
ReturnTarget ==
  /\ steps < MaxSteps
  /\ loop.pc = "return"
  /\ loop' = [loop EXCEPT !.pc = "done"]
  /\ lastCall' = [Call("target", 1, 0, "ok") EXCEPT
                    !.funds = lastCall.funds,
                    !.target = [order |-> lastCall.target.order, quantity |-> loop.quantity,
                                error |-> ""]]
  /\ UNCHANGED <<price, portfolio_stocks, strategies, holdings, next_holding_id, history,
                 clock, edits, preExecute, session, requests, serial>>
  /\ steps' = steps + 1

NextLoop ==
  \/ EnterGreedyLoop
  \/ GreedyIteration
  \/ GreedyExit
  \/ ReturnTarget

SpecLoop == InitLoop /\ [][NextLoop]_vars /\ WF_vars(NextLoop)

\* the shares a list of securities holds in a quantity dict
RECURSIVE SharesOf(_, _)
SharesOf(order, quantity) ==
  IF order = <<>> THEN 0 ELSE quantity[Head(order)] + SharesOf(Tail(order), quantity)

SmallestPrice(order) ==
  CHOOSE v \in {price[order[i]] : i \in DOMAIN order} :
    \A i \in DOMAIN order : v <= price[order[i]]

\* a pass of the loop: it either buys at least one share and the leftover
\* falls by at least the smallest price, or it buys nothing and the loop is
\* left
PassBuysOrEnds ==
  (loop.pc = "while" /\ loop.remaining_cash > 0) =>
    \/ /\ SharesOf(loop.sorted, loop'.quantity) >= SharesOf(loop.sorted, loop.quantity) + 1
       /\ loop'.remaining_cash <= loop.remaining_cash - SmallestPrice(loop.sorted)
    \/ /\ loop'.quantity = loop.quantity
       /\ loop'.remaining_cash = loop.remaining_cash
       /\ loop'.pc # "while"

\* C30: with all prices above 0 the greedy loop terminates: every pass
\* either buys at least one share, the leftover falling by at least the
\* smallest price, or buys nothing and ends the loop, and every call comes
\* to its return
C30_GreedyLoopTerminates ==
  /\ [][PassBuysOrEnds]_vars
  /\ <>(loop.pc = "done")

\* the call has returned after the loop gave a security two shares in two
\* passes and a last pass found nothing to buy with the cash still left
C30_Witness ==
  /\ loop.pc = "done"
  /\ loop.remaining_cash > 0
  /\ \E s \in Range(loop.sorted) : loop.quantity[s] >= FloorsOfLastCall.quantity[s] + 2

\* the loop taken pass by pass returns what the calculator returns
LoopAgreesWithCalculator ==
  loop.pc = "done" =>
    loop.quantity = CalculateTargetAllocations(strategies[1].portfolio_allocations,
                      lastCall.funds, DOMAIN portfolio_stocks, price).quantity

====
